---- MODULE Spec2Model ----
(***************************************************************************)
(* A model of the dac assembler front end: the line lexer (lexer.py), the  *)
(* wes recursive-descent parser with its optional / reset combinators and  *)
(* the seed-growing cache for left recursion (wes/parser.py), and the das  *)
(* parser with its mark stack (das/parser.py).                             *)
(*                                                                         *)
(* Text is a sequence of one-character strings.  Python exceptions are     *)
(* results: every rule returns a record [k, v, st, e] where k is "ok"      *)
(* (a normal return of v, None included), "reset" (Reset raised) or "stop" *)
(* (Stop raised), st is the parser state after the call and e the          *)
(* exception's message and tokens.                                         *)
(***************************************************************************)
EXTENDS Integers, Sequences, FiniteSets, TLC

VARIABLES text, toks, st, stmts, status, err, last, dcur, dstmts, dstatus, dlast,
          lx, yielded, shadow, mach

vars == <<text, toks, st, stmts, status, err, last, dcur, dstmts, dstatus, dlast,
          lx, yielded, shadow, mach>>

(***************************************************************************)
(* Bounds of the checked inputs.                                           *)
(***************************************************************************)
MaxTextLen == 4
MaxLineToks == 4
MaxExprToks == 2
MaxDeepToks == 5
MaxChainOps == 3

\* a call of an expression rule runs at most 2^MaxSteps steps
MaxSteps == 12

\* the texts the lexer is run on alone
MaxLexLen == 5

\* the texts the lexer is run on to its end under fairness
MaxFairLen == 4

\* the cursor of das: length of the texts, calls made, tokens peeked or dropped by a call
MaxCursorLen == 3
MaxOps == 5
MaxPeek == 2

\* the expression rules stepped one frame at a time: tokens of an input
MaxMachToks == 3

\* the token texts the rules classify: characters of a text
MaxTokLen == 3

(***************************************************************************)
(* Characters.                                                             *)
(***************************************************************************)
Whitespace == {" ", "\t", "\n", "\r"}
Lower == {"a","b","c","d","e","f","g","h","i","j","k","l","m",
          "n","o","p","q","r","s","t","u","v","w","x","y","z"}
Upper == {"A","B","C","D","E","F","G","H","I","J","K","L","M",
          "N","O","P","Q","R","S","T","U","V","W","X","Y","Z"}
Digits == {"0","1","2","3","4","5","6","7","8","9"}
HexLetters == {"a","b","c","d","e","f","A","B","C","D","E","F"}

Last(s) == s[Len(s)]

(***************************************************************************)
(* lexer.py                                                                *)
(***************************************************************************)
\* a character class without the class of ":"
char_type_nocolon(c) == IF c \in Whitespace THEN 0 ELSE 2

\* a character class that splits "," off as ":" is split off
char_type_comma(c) == IF c \in Whitespace THEN 0 ELSE IF c \in {":", ","} THEN 1 ELSE 2

_char_type(c) == IF c \in Whitespace THEN 0 ELSE IF c = ":" THEN 1 ELSE 2

\* a while loop without the yield of the last run after it
RECURSIVE tokenize_loop_nolast(_, _, _, _, _)
tokenize_loop_nolast(buf, i, last_pos, last_type, acc) ==
    IF i < Len(buf)
    THEN LET curr_type == _char_type(buf[i + 1])
         IN IF curr_type # last_type
            THEN tokenize_loop_nolast(buf, i + 1, i, curr_type,
                                      Append(acc, SubSeq(buf, last_pos + 1, i)))
            ELSE tokenize_loop_nolast(buf, i + 1, last_pos, curr_type, acc)
    ELSE acc

\* the while loop of tokenize: i, last_pos are 0-based as in the source
RECURSIVE tokenize_loop(_, _, _, _, _)
tokenize_loop(buf, i, last_pos, last_type, acc) ==
    IF i < Len(buf)
    THEN LET curr_type == _char_type(buf[i + 1])
         IN IF curr_type # last_type
            THEN tokenize_loop(buf, i + 1, i, curr_type,
                               Append(acc, SubSeq(buf, last_pos + 1, i)))
            ELSE tokenize_loop(buf, i + 1, last_pos, curr_type, acc)
    ELSE Append(acc, SubSeq(buf, last_pos + 1, Len(buf)))

tokenize(buf) ==
    IF Len(buf) = 0 THEN <<>>
    ELSE tokenize_loop(buf, 0, 0, _char_type(buf[1]), <<>>)

Token(t, start, end, line_start, line_num, col) ==
    [text |-> t, start |-> start, end |-> end,
     line_start |-> line_start, line_num |-> line_num, col |-> col]

isspace(s) == Len(s) > 0 /\ \A k \in 1..Len(s) : s[k] \in Whitespace

RECURSIVE lstrip(_)
lstrip(s) == IF Len(s) > 0 /\ s[1] \in Whitespace THEN lstrip(Tail(s)) ELSE s

RECURSIVE rstrip(_)
rstrip(s) ==
    IF Len(s) > 0 /\ Last(s) \in Whitespace
    THEN rstrip(SubSeq(s, 1, Len(s) - 1)) ELSE s

strip(s) == rstrip(lstrip(s))

startswith(s, c) == Len(s) > 0 /\ s[1] = c

\* buf.readline() at 0-based offset off: up to and including the next line break
RECURSIVE readline(_, _)
readline(buf, off) ==
    IF off >= Len(buf) THEN <<>>
    ELSE IF buf[off + 1] = "\n" THEN <<"\n">>
    ELSE <<buf[off + 1]>> \o readline(buf, off + 1)

\* a get_line that returns the line as read, without adding a line break
get_line_raw(raw) == raw

\* Lexer.get_line: the line with its line break added when missing
get_line(raw) == IF Last(raw) # "\n" THEN raw \o <<"\n">> ELSE raw

\* a for loop that reports col from the start of the text, not of the line
RECURSIVE line_tokens_abs_col(_, _, _, _, _)
line_tokens_abs_col(parts, k, col, pos, line_num) ==
    IF k > Len(parts) THEN <<>>
    ELSE LET part == parts[k]
         IN IF isspace(part)
            THEN line_tokens_abs_col(parts, k + 1, col + Len(part), pos, line_num)
            ELSE IF startswith(part, "#") THEN <<>>
            ELSE <<Token(part, pos + col, pos + col + Len(part), pos, line_num,
                         pos + col)>>
                 \o line_tokens_abs_col(parts, k + 1, col + Len(part), pos, line_num)

\* a for loop that leaves col where it is when it skips whitespace
RECURSIVE line_tokens_nocol(_, _, _, _, _)
line_tokens_nocol(parts, k, col, pos, line_num) ==
    IF k > Len(parts) THEN <<>>
    ELSE LET part == parts[k]
         IN IF isspace(part)
            THEN line_tokens_nocol(parts, k + 1, col, pos, line_num)
            ELSE IF startswith(part, "#") THEN <<>>
            ELSE <<Token(part, pos + col, pos + col + Len(part), pos, line_num, col)>>
                 \o line_tokens_nocol(parts, k + 1, col + Len(part), pos, line_num)

\* the for loop over tokenize(line) in Lexer.__iter__
RECURSIVE line_tokens(_, _, _, _, _)
line_tokens(parts, k, col, pos, line_num) ==
    IF k > Len(parts) THEN <<>>
    ELSE LET part == parts[k]
         IN IF isspace(part)
            THEN line_tokens(parts, k + 1, col + Len(part), pos, line_num)
            ELSE IF startswith(part, "#") THEN <<>>
            ELSE <<Token(part, pos + col, pos + col + Len(part), pos, line_num, col)>>
                 \o line_tokens(parts, k + 1, col + Len(part), pos, line_num)

\* an inner loop that skips blank lines only, not comment lines
is_empty_plain(line) == Len(strip(line)) = 0

\* the lines the inner loop of Lexer.__iter__ skips
is_empty_line(line) == Len(strip(line)) = 0 \/ startswith(strip(line), "#")

\* the token yielded when get_line raises Eof
eof_token(pos, line_num) == Token(<<>>, pos, pos, pos, line_num + 1, 0)

\* the semantic newline token of a line
newline_token(line, pos, line_num) ==
    Token(<<"\n">>, pos + Len(line) - 1, pos + Len(line), pos, line_num,
          Len(line) - 1)

\* Lexer.__iter__: off is the read offset of buf, pos and line_num the lexer's fields
RECURSIVE Lexer(_, _, _, _)
Lexer(buf, off, pos, line_num) ==
    LET raw == readline(buf, off)
    IN IF Len(raw) = 0
       THEN <<eof_token(pos, line_num)>>
       ELSE LET line == get_line(raw)
                ln == line_num + 1
            IN IF is_empty_line(line)
               THEN Lexer(buf, off + Len(raw), pos + Len(line), ln)
               ELSE line_tokens(tokenize(line), 1, 0, pos, ln)
                    \o <<newline_token(line, pos, ln)>>
                    \o Lexer(buf, off + Len(raw), pos + Len(line), ln)

Lex(buf) == Lexer(buf, 0, 0, 0)

\* Lexer.__init__: off is the read offset of buf
NewLexer == [off |-> 0, pos |-> 0, line_num |-> 0]

\* the three token kinds
IsNewline(tok) == tok.text = <<"\n">>
IsEof(tok) == tok.text = <<>>
IsText(tok) == ~IsNewline(tok) /\ ~IsEof(tok)


(***************************************************************************)
(* wes/parser.py: lexical forms                                            *)
(***************************************************************************)
AllIn(s, from, S) == \A k \in from..Len(s) : s[k] \in S

NAME_RE(s) ==
    /\ Len(s) >= 1
    /\ s[1] \in Lower \cup Upper \cup {"_"}
    /\ AllIn(s, 2, Lower \cup Upper \cup Digits \cup {"_"})

VAL_RE(s) ==
    \/ Len(s) >= 3 /\ s[1] = "0" /\ s[2] = "b" /\ AllIn(s, 3, {"0", "1", "_"})
    \/ Len(s) >= 3 /\ s[1] = "0" /\ s[2] = "o"
                   /\ AllIn(s, 3, {"0","1","2","3","4","5","6","7","_"})
    \/ Len(s) >= 1 /\ AllIn(s, 1, Digits \cup {"_"})
    \/ Len(s) >= 3 /\ s[1] = "0" /\ s[2] = "x"
                   /\ AllIn(s, 3, HexLetters \cup Digits \cup {"_"})

\* utils.str_to_int: the literal's value, by its prefix, "_" separating digits
DigitVal(c) ==
    CASE c = "0" -> 0 [] c = "1" -> 1 [] c = "2" -> 2 [] c = "3" -> 3
      [] c = "4" -> 4 [] c = "5" -> 5 [] c = "6" -> 6 [] c = "7" -> 7
      [] c = "8" -> 8 [] c = "9" -> 9
      [] c \in {"a", "A"} -> 10 [] c \in {"b", "B"} -> 11
      [] c \in {"c", "C"} -> 12 [] c \in {"d", "D"} -> 13
      [] c \in {"e", "E"} -> 14 [] c \in {"f", "F"} -> 15

RECURSIVE digits_to_int(_, _, _, _)
digits_to_int(s, k, base, acc) ==
    IF k > Len(s) THEN acc
    ELSE IF s[k] = "_" THEN digits_to_int(s, k + 1, base, acc)
    ELSE digits_to_int(s, k + 1, base, acc * base + DigitVal(s[k]))

str_to_int(s) ==
    IF Len(s) >= 2 /\ s[1] = "0" /\ s[2] = "b" THEN digits_to_int(s, 3, 2, 0)
    ELSE IF Len(s) >= 2 /\ s[1] = "0" /\ s[2] = "o" THEN digits_to_int(s, 3, 8, 0)
    ELSE IF Len(s) >= 2 /\ s[1] = "0" /\ s[2] = "x" THEN digits_to_int(s, 3, 16, 0)
    ELSE digits_to_int(s, 1, 10, 0)

(***************************************************************************)
(* wes/parser.py: nodes.  None is a node of its own type; an absent sign   *)
(* of an Offset is the empty text.                                         *)
(***************************************************************************)
None == [type |-> "None"]
NoSign == <<>>

Label(name, tks) == [type |-> "Label", name |-> name, toks |-> tks]
Offset(offset, relative, tks) ==
    [type |-> "Offset", offset |-> offset, relative |-> relative, toks |-> tks]
Op(mnemonic, args, tks) ==
    [type |-> "Op", mnemonic |-> mnemonic, args |-> args, toks |-> tks]
Name(name, tks) == [type |-> "Name", name |-> name, toks |-> tks]
Val(val, tks) == [type |-> "Val", val |-> val, toks |-> tks]
UnExpr(op, x, tks) == [type |-> "UnExpr", op |-> op, x |-> x, toks |-> tks]
BinExpr(x, op, y, tks) ==
    [type |-> "BinExpr", x |-> x, op |-> op, y |-> y, toks |-> tks]

\* an argument of an Op: a str or an int
StrArg(s) == [str |-> s]
IntArg(n) == [int |-> n]

(***************************************************************************)
(* Results and signals.  st is the parser: pos is the cursor of the token  *)
(* stream and cache the rule cache; raised (every Stop raised, with the    *)
(* cursor and the log of that moment), eot (the stream was read past its   *)
(* end) and log (every Reset a reset context caught: the cursor on entry,  *)
(* at the raise and after the context) are history.                        *)
(***************************************************************************)
NoErr == [m |-> "", a |-> <<>>, toks |-> <<>>]

Ret(v, s) == [k |-> "ok", v |-> v, st |-> s, e |-> NoErr]

RaiseReset(m, a, tks, s) ==
    [k |-> "reset", v |-> None, st |-> s, e |-> [m |-> m, a |-> a, toks |-> tks]]

RaiseStop(m, a, tks, s) ==
    [k |-> "stop", v |-> None,
     st |-> [s EXCEPT !.raised =
                Append(@, [m |-> m, a |-> a, toks |-> tks, pos |-> s.pos,
                           log |-> s.log])],
     e |-> [m |-> m, a |-> a, toks |-> tks]]

Raise(error, m, a, tks, s) ==
    IF error = "Stop" THEN RaiseStop(m, a, tks, s) ELSE RaiseReset(m, a, tks, s)

NewParser ==
    [pos |-> 0, cache |-> [key \in {} |-> None], raised |-> <<>>,
     eot |-> FALSE, log |-> {}]

(***************************************************************************)
(* The token stream: a cursor over the lexer's tokens.                     *)
(***************************************************************************)
mark(s) == s.pos

ts_reset(s, p) == [s EXCEPT !.pos = p]

\* TokenStream.get: the next token, or EndOfTokens past the last one
ts_get(s) ==
    IF s.pos >= Len(toks)
    THEN [k |-> "EndOfTokens", v |-> None, st |-> [s EXCEPT !.eot = TRUE], e |-> NoErr]
    ELSE Ret(toks[s.pos + 1], [s EXCEPT !.pos = @ + 1])

(***************************************************************************)
(* Sequencing.  Then(r, F) is "r's statement, then F": an exception of r   *)
(* propagates, a normal return is handed to F.  OrElse(r, F) is the        *)
(* "if x := rule(): return x" chain: a result that is not None is          *)
(* returned, otherwise F runs from the state r left.                       *)
(***************************************************************************)
Then(r, F(_)) == IF r.k # "ok" THEN r ELSE F(r)

OrElse(r, F(_)) == IF r.k # "ok" \/ r.v # None THEN r ELSE F(r.st)

(***************************************************************************)
(* wes/parser.py: Parser                                                   *)
(***************************************************************************)
get(error, s) ==
    IF ts_get(s).k = "EndOfTokens"
    THEN Raise(error, "unexpected end of tokens", <<>>, <<>>, ts_get(s).st)
    ELSE ts_get(s)

\* reset contexts that catch nothing: the block's outcome is the context's
reset_nocatch(s, r) == r

\* reset contexts that catch Stop as they catch Reset
reset_any(s, r) ==
    IF r.k \in {"reset", "stop"}
    THEN Ret(None, [ts_reset(r.st, mark(s)) EXCEPT
                       !.log = @ \cup {<<s.pos, r.st.pos, ts_reset(r.st, mark(s)).pos>>}])
    ELSE r

\* with self.reset(): r is the outcome of the block entered in state s
reset(s, r) ==
    IF r.k = "reset"
    THEN Ret(None, [ts_reset(r.st, mark(s)) EXCEPT
                       !.log = @ \cup {<<s.pos, r.st.pos, ts_reset(r.st, mark(s)).pos>>}])
    ELSE r

InAlts(t, alts) == \E i \in 1..Len(alts) : alts[i] = t

expect(alts, error, s) ==
    Then(get("Reset", s), LAMBDA r :
        IF ~IsText(r.v)
        THEN Raise(error, "unexpected end of line", <<>>, <<r.v>>, r.st)
        ELSE IF Len(alts) > 0 /\ ~InAlts(r.v.text, alts)
        THEN Raise(error, IF Len(alts) = 1 THEN "expected" ELSE "expected one of",
                   alts, <<r.v>>, r.st)
        ELSE r)

expect_newline(error, s) ==
    Then(get("Reset", s), LAMBDA r :
        IF ~IsNewline(r.v)
        THEN Raise(error, "expected end of line", <<>>, <<r.v>>, r.st)
        ELSE r)

maybe(alts, s) == reset(s, expect(alts, "Reset", s))

\* the decorator: res is the outcome of method(self) called in s, within the
\* reset context; None when it backtracks
optional(s, res) == reset(s, res)

\* the "optional trailing newline" block of the offset and label rules
trailing_newline(s) == reset(s, expect_newline("Reset", s))

\* the relative offset built without its sign
parse_relative_unsigned(s) ==
    Then(expect(<<<<"+">>, <<"-">>>>, "Reset", s), LAMBDA relative :
    Then(expect(<<>>, "Reset", relative.st), LAMBDA val :
    Then(expect(<<<<":">>>>, "Reset", val.st), LAMBDA colon :
        IF ~VAL_RE(val.v.text)
        THEN RaiseReset("is not valid offset", <<val.v.text>>, <<val.v>>, colon.st)
        ELSE Then(trailing_newline(colon.st), LAMBDA nl :
                 Ret(Offset(str_to_int(val.v.text), NoSign,
                            <<relative.v, val.v, colon.v>>), nl.st)))))

parse_relative_body(s) ==
    Then(expect(<<<<"+">>, <<"-">>>>, "Reset", s), LAMBDA relative :
    Then(expect(<<>>, "Reset", relative.st), LAMBDA val :
    Then(expect(<<<<":">>>>, "Reset", val.st), LAMBDA colon :
        IF ~VAL_RE(val.v.text)
        THEN RaiseReset("is not valid offset", <<val.v.text>>, <<val.v>>, colon.st)
        ELSE Then(trailing_newline(colon.st), LAMBDA nl :
                 Ret(Offset(str_to_int(val.v.text), relative.v.text,
                            <<relative.v, val.v, colon.v>>), nl.st)))))

parse_relative(s) == optional(s, parse_relative_body(s))

parse_absolute_body(s) ==
    Then(expect(<<>>, "Reset", s), LAMBDA val :
    Then(expect(<<<<":">>>>, "Reset", val.st), LAMBDA colon :
        IF ~VAL_RE(val.v.text)
        THEN RaiseReset("is not valid offset", <<val.v.text>>, <<val.v>>, colon.st)
        ELSE Then(trailing_newline(colon.st), LAMBDA nl :
                 Ret(Offset(str_to_int(val.v.text), NoSign, <<val.v, colon.v>>),
                     nl.st))))

parse_absolute(s) == optional(s, parse_absolute_body(s))

parse_offset(s) == OrElse(parse_relative(s), parse_absolute)

parse_label_body(s) ==
    Then(expect(<<>>, "Reset", s), LAMBDA name :
    Then(expect(<<<<":">>>>, "Reset", name.st), LAMBDA colon :
        IF ~NAME_RE(name.v.text)
        THEN RaiseReset("is not valid name", <<name.v.text>>, <<name.v>>, colon.st)
        ELSE Then(trailing_newline(colon.st), LAMBDA nl :
                 Ret(Label(name.v.text, <<name.v, colon.v>>), nl.st))))

parse_label(s) == optional(s, parse_label_body(s))

\* returns the argument or raises Stop; the parser is as it was
parse_arg_token(name_or_val, s) ==
    IF VAL_RE(name_or_val.text) THEN Ret(IntArg(str_to_int(name_or_val.text)), s)
    ELSE IF NAME_RE(name_or_val.text) THEN Ret(StrArg(name_or_val.text), s)
    ELSE RaiseStop("is not a valid name or integer", <<name_or_val.text>>,
                   <<name_or_val>>, s)

\* a nullary rule that backtracks on a token of neither form
parse_nullary_soft(s) ==
    Then(expect(<<>>, "Reset", s), LAMBDA name_or_val :
    Then(expect_newline("Reset", name_or_val.st), LAMBDA nl :
        IF NAME_RE(name_or_val.v.text)
        THEN Ret(Op(name_or_val.v.text, <<>>, <<name_or_val.v>>), nl.st)
        ELSE IF VAL_RE(name_or_val.v.text)
        THEN Ret(Val(str_to_int(name_or_val.v.text), <<name_or_val.v>>), nl.st)
        ELSE RaiseReset("is not a valid name or integer", <<name_or_val.v.text>>,
                        <<name_or_val.v>>, nl.st)))

parse_nullary_body(s) ==
    Then(expect(<<>>, "Reset", s), LAMBDA name_or_val :
    Then(expect_newline("Reset", name_or_val.st), LAMBDA nl :
        IF NAME_RE(name_or_val.v.text)
        THEN Ret(Op(name_or_val.v.text, <<>>, <<name_or_val.v>>), nl.st)
        ELSE IF VAL_RE(name_or_val.v.text)
        THEN Ret(Val(str_to_int(name_or_val.v.text), <<name_or_val.v>>), nl.st)
        ELSE RaiseStop("is not a valid name or integer", <<name_or_val.v.text>>,
                       <<name_or_val.v>>, nl.st)))

parse_nullary(s) == optional(s, parse_nullary_body(s))

parse_unary_body(s) ==
    Then(expect(<<>>, "Reset", s), LAMBDA mnemonic :
    Then(expect(<<>>, "Reset", mnemonic.st), LAMBDA arg :
    Then(expect_newline("Reset", arg.st), LAMBDA nl :
        IF ~NAME_RE(mnemonic.v.text)
        THEN RaiseStop("is not a valid name", <<mnemonic.v.text>>, <<mnemonic.v>>, nl.st)
        ELSE Then(parse_arg_token(arg.v, nl.st), LAMBDA arg_ :
                 Ret(Op(mnemonic.v.text, <<arg_.v>>, <<mnemonic.v, arg.v>>),
                     arg_.st)))))

parse_unary(s) == optional(s, parse_unary_body(s))

\* the binary instruction whose missing comma is a backtrack
parse_binary_soft(s) ==
    Then(expect(<<>>, "Reset", s), LAMBDA mnemonic :
    Then(expect(<<>>, "Reset", mnemonic.st), LAMBDA arg1 :
    Then(expect(<<<<",">>>>, "Reset", arg1.st), LAMBDA comma :
    Then(expect(<<>>, "Stop", comma.st), LAMBDA arg2 :
    Then(expect_newline("Stop", arg2.st), LAMBDA nl :
        IF ~NAME_RE(mnemonic.v.text)
        THEN RaiseStop("is not a valid name", <<mnemonic.v.text>>, <<mnemonic.v>>, nl.st)
        ELSE Then(parse_arg_token(arg1.v, nl.st), LAMBDA arg1_ :
             Then(parse_arg_token(arg2.v, arg1_.st), LAMBDA arg2_ :
                 Ret(Op(mnemonic.v.text, <<arg1_.v, arg2_.v>>,
                        <<mnemonic.v, arg1.v, comma.v, arg2.v>>), arg2_.st))))))))

parse_binary_body(s) ==
    Then(expect(<<>>, "Reset", s), LAMBDA mnemonic :
    Then(expect(<<>>, "Reset", mnemonic.st), LAMBDA arg1 :
    Then(expect(<<<<",">>>>, "Stop", arg1.st), LAMBDA comma :
    Then(expect(<<>>, "Stop", comma.st), LAMBDA arg2 :
    Then(expect_newline("Stop", arg2.st), LAMBDA nl :
        IF ~NAME_RE(mnemonic.v.text)
        THEN RaiseStop("is not a valid name", <<mnemonic.v.text>>, <<mnemonic.v>>, nl.st)
        ELSE Then(parse_arg_token(arg1.v, nl.st), LAMBDA arg1_ :
             Then(parse_arg_token(arg2.v, arg1_.st), LAMBDA arg2_ :
                 Ret(Op(mnemonic.v.text, <<arg1_.v, arg2_.v>>,
                        <<mnemonic.v, arg1.v, comma.v, arg2.v>>), arg2_.st))))))))

parse_binary(s) == optional(s, parse_binary_body(s))

parse_inst(s) ==
    OrElse(parse_nullary(s), LAMBDA s1 : OrElse(parse_unary(s1), parse_binary))

parse_stmt(s) ==
    OrElse(parse_offset(s), LAMBDA s1 : OrElse(parse_label(s1), parse_inst))

parse_eof(s) ==
    Then(get("Reset", s), LAMBDA tok :
        IF ~IsEof(tok.v)
        THEN RaiseStop("expected end of file", <<>>, <<tok.v>>, tok.st)
        ELSE Ret(None, tok.st))

(***************************************************************************)
(* wes/parser.py: the rule cache and the expression rules                  *)
(***************************************************************************)
CachePut(c, key, val) ==
    [q \in DOMAIN c \cup {key} |-> IF q = key THEN val ELSE c[q]]

\* the operators of each binary level, and its next-tighter rule
ExprOps(name) ==
    CASE name = "parse_power" -> <<<<"*", "*">>>>
      [] name = "parse_term"  -> <<<<"*">>, <<"/">>, <<"%">>>>
      [] name = "parse_sum"   -> <<<<"+">>, <<"-">>>>
      [] name = "parse_shift" -> <<<<"<", "<">>, <<">", ">">>>>
      [] name = "parse_and"   -> <<<<"&">>>>
      [] name = "parse_xor"   -> <<<<"^">>>>
      [] name = "parse_expr"  -> <<<<"|">>>>

ExprRhs(name) ==
    CASE name = "parse_power" -> "parse_atom"
      [] name = "parse_term"  -> "parse_factor"
      [] name = "parse_sum"   -> "parse_term"
      [] name = "parse_shift" -> "parse_sum"
      [] name = "parse_and"   -> "parse_shift"
      [] name = "parse_xor"   -> "parse_and"
      [] name = "parse_expr"  -> "parse_xor"

(***************************************************************************)
(* The expression rules call one another to a depth the length of the      *)
(* input does not bound (eight rules per parenthesis), so their calls are  *)
(* kept on an explicit stack.  A machine m is the parser st, the stack of  *)
(* the calls in progress and ret, what the last step handed to the frame   *)
(* now on top: "call" (the frame was just called), "ok" with the value v   *)
(* the callee returned, or the signal "reset" or "stop" the callee raised. *)
(* A frame is a call of fn for the rule name, standing at pc, with the     *)
(* locals of the function.                                                 *)
(***************************************************************************)
Frame(fn, name) ==
    [fn |-> fn, name |-> name, pc |-> "start", pos |-> 0,
     last_res |-> None, last_pos |-> 0, x |-> None, op |-> None]

CallSig == [k |-> "call", v |-> None, e |-> NoErr]

Top(m) == m.stack[Len(m.stack)]

\* what the callee handed over, as a result in the parser as it is now
Result(m) == [k |-> m.ret.k, v |-> m.ret.v, st |-> m.st, e |-> m.ret.e]

\* the top frame f calls: it waits at f.pc for the callee's return
Call(m, s, f, callee) ==
    [m EXCEPT !.st = s,
              !.stack = Append(SubSeq(@, 1, Len(@) - 1), f) \o <<callee>>,
              !.ret = CallSig]

\* the top frame ends with r: a return when r.k is "ok", else a raise
Return(m, r) ==
    [m EXCEPT !.st = r.st,
              !.stack = SubSeq(@, 1, Len(@) - 1),
              !.ret = [k |-> r.k, v |-> r.v, e |-> r.e]]

\* the frame of a call of the rule name: parse_atom is optional only
RuleFrame(name) ==
    IF name = "parse_atom" THEN Frame("optional", name)
    ELSE Frame("cache_left_rec", name)

\* the function the optional of rule name wraps
BodyOf(name) ==
    IF name = "parse_atom" THEN "parse_atom"
    ELSE IF name = "parse_factor" THEN "parse_factor"
    ELSE "parser"

\* cache_left_rec, the top of its loop: rewind to pos and call the method
seed_call(m, s, f) ==
    Call(m, ts_reset(s, f.pos), [f EXCEPT !.pc = "in_loop"],
         Frame("optional", f.name))

\* cache_left_rec whose cache hit returns the stored result and leaves the
\* cursor where it is
cache_hit_no_seek(m, f) ==
    IF <<mark(m.st), f.name>> \in DOMAIN m.st.cache
    THEN Return(m, Ret(m.st.cache[<<mark(m.st), f.name>>].res, m.st))
    ELSE seed_call(m,
                   [m.st EXCEPT !.cache =
                       CachePut(@, <<mark(m.st), f.name>>,
                                [res |-> None, end |-> mark(m.st)])],
                   [f EXCEPT !.pos = mark(m.st), !.last_res = None,
                             !.last_pos = mark(m.st)])

\* a call of the rule f.name from position pos is in progress under the top frame
CallInProgress(m, f, pos) ==
    \E i \in 1..(Len(m.stack) - 1) :
        /\ m.stack[i].fn = "cache_left_rec" /\ m.stack[i].pc = "in_loop"
        /\ m.stack[i].name = f.name /\ m.stack[i].pos = pos

\* cache_left_rec that reuses an entry only while the call that stores it
\* is in progress, and runs the method again for an entry of an earlier call
cache_rerun(m, f) ==
    IF <<mark(m.st), f.name>> \in DOMAIN m.st.cache /\ CallInProgress(m, f, mark(m.st))
    THEN Return(m, Ret(m.st.cache[<<mark(m.st), f.name>>].res,
                       ts_reset(m.st, m.st.cache[<<mark(m.st), f.name>>].end)))
    ELSE seed_call(m,
                   [m.st EXCEPT !.cache =
                       CachePut(@, <<mark(m.st), f.name>>,
                                [res |-> None, end |-> mark(m.st)])],
                   [f EXCEPT !.pos = mark(m.st), !.last_res = None,
                             !.last_pos = mark(m.st)])

\* cache_left_rec, on entry: a cache hit, or the cache primed and the loop
cache_left_rec(m, f) ==
    IF <<mark(m.st), f.name>> \in DOMAIN m.st.cache
    THEN Return(m, Ret(m.st.cache[<<mark(m.st), f.name>>].res,
                       ts_reset(m.st, m.st.cache[<<mark(m.st), f.name>>].end)))
    ELSE seed_call(m,
                   [m.st EXCEPT !.cache =
                       CachePut(@, <<mark(m.st), f.name>>,
                                [res |-> None, end |-> mark(m.st)])],
                   [f EXCEPT !.pos = mark(m.st), !.last_res = None,
                             !.last_pos = mark(m.st)])

\* a seed loop that stores the round's result before it compares the ends
seed_loop_store(m, f) ==
    IF mark(m.st) <= f.last_pos
    THEN Return(m, Ret(f.last_res,
                       ts_reset([m.st EXCEPT !.cache =
                                    CachePut(@, <<f.pos, f.name>>,
                                             [res |-> m.ret.v, end |-> mark(m.st)])],
                                f.last_pos)))
    ELSE seed_call(m,
                   [m.st EXCEPT !.cache =
                       CachePut(@, <<f.pos, f.name>>,
                                [res |-> m.ret.v, end |-> mark(m.st)])],
                   [f EXCEPT !.last_res = m.ret.v, !.last_pos = mark(m.st)])

\* a seed loop that goes round again when the end did not move
seed_loop_lt(m, f) ==
    IF mark(m.st) < f.last_pos
    THEN Return(m, Ret(f.last_res, ts_reset(m.st, f.last_pos)))
    ELSE seed_call(m,
                   [m.st EXCEPT !.cache =
                       CachePut(@, <<f.pos, f.name>>,
                                [res |-> m.ret.v, end |-> mark(m.st)])],
                   [f EXCEPT !.last_res = m.ret.v, !.last_pos = mark(m.st)])

\* seed_loop with the growing left out: the first result is final
seed_once(m, f) == Return(m, Ret(m.ret.v, m.st))

\* cache_left_rec, the method has returned m.ret.v: stop growing or go round
seed_loop(m, f) ==
    IF mark(m.st) <= f.last_pos
    THEN Return(m, Ret(f.last_res, ts_reset(m.st, f.last_pos)))
    ELSE seed_call(m,
                   [m.st EXCEPT !.cache =
                       CachePut(@, <<f.pos, f.name>>,
                                [res |-> m.ret.v, end |-> mark(m.st)])],
                   [f EXCEPT !.last_res = m.ret.v, !.last_pos = mark(m.st)])

\* optional, on entry: the reset context notes the mark, the method is called
optional_enter(m, f) ==
    Call(m, m.st, [f EXCEPT !.pc = "in_reset", !.pos = mark(m.st)],
         Frame(BodyOf(f.name), f.name))

\* optional, the method has returned or raised: the reset context decides
optional_exit(m, f) == Return(m, reset(ts_reset(m.st, f.pos), Result(m)))

\* "return rule(self)": the caller returns what the callee returned
tail(m, f) == Return(m, Result(m))

\* make_expr_parser's parser: "if x := parser(self)"
parser(m, f) ==
    Call(m, m.st, [f EXCEPT !.pc = "after_x"], Frame("cache_left_rec", f.name))

parser_op(m, f, op) ==
    IF op.k # "ok" THEN Return(m, op)
    ELSE Call(m, op.st, [f EXCEPT !.pc = "after_y", !.x = m.ret.v, !.op = op.v],
              RuleFrame(ExprRhs(f.name)))

\* parser, x is m.ret.v: the operator and the call of rhs, or "return rhs(self)"
parser_after_x(m, f) ==
    IF m.ret.v # None
    THEN parser_op(m, f, expect(ExprOps(f.name), "Reset", m.st))
    ELSE Call(m, m.st, [f EXCEPT !.pc = "tail"], RuleFrame(ExprRhs(f.name)))

\* parser, y is m.ret.v
parser_after_y(m, f) ==
    IF m.ret.v = None
    THEN Return(m, RaiseStop("expected expression after operator",
                             <<f.op.text>>, <<f.op>>, m.st))
    ELSE Return(m, Ret(BinExpr(f.x, f.op.text, m.ret.v,
                               f.x.toks \o <<f.op>> \o m.ret.v.toks), m.st))

parse_factor_op(m, f, op) ==
    IF op.k # "ok" THEN Return(m, op)
    ELSE IF op.v # None
    THEN Call(m, op.st, [f EXCEPT !.pc = "after_x", !.op = op.v],
              Frame("cache_left_rec", "parse_factor"))
    ELSE Call(m, op.st, [f EXCEPT !.pc = "tail"],
              Frame("cache_left_rec", "parse_power"))

parse_factor(m, f) == parse_factor_op(m, f, maybe(<<<<"-">>, <<"~">>>>, m.st))

\* parse_factor, x is m.ret.v
parse_factor_after_x(m, f) ==
    IF m.ret.v = None
    THEN Return(m, RaiseStop("expected expression after operator",
                             <<f.op.text>>, <<f.op>>, m.st))
    ELSE Return(m, Ret(UnExpr(f.op.text, m.ret.v, <<f.op>> \o m.ret.v.toks), m.st))

\* parse_atom without "(": a Val, a Name, or a backtrack
parse_atom_name(r) ==
    IF r.k # "ok" THEN r
    ELSE IF VAL_RE(r.v.text) THEN Ret(Val(str_to_int(r.v.text), <<r.v>>), r.st)
    ELSE IF NAME_RE(r.v.text) THEN Ret(Name(r.v.text, <<r.v>>), r.st)
    ELSE RaiseReset("is not a valid name or integer", <<r.v.text>>, <<r.v>>, r.st)

parse_atom_paren(m, f, l_paren) ==
    IF l_paren.k # "ok" THEN Return(m, l_paren)
    ELSE IF l_paren.v # None
    THEN Call(m, l_paren.st, [f EXCEPT !.pc = "after_expr", !.op = l_paren.v],
              Frame("cache_left_rec", "parse_expr"))
    ELSE Return(m, parse_atom_name(expect(<<>>, "Reset", l_paren.st)))

parse_atom(m, f) == parse_atom_paren(m, f, maybe(<<<<"(">>>>, m.st))

r_paren(m, f, r) ==
    IF r.k # "ok" THEN r
    ELSE Ret([m.ret.v EXCEPT !.toks = <<f.op>> \o m.ret.v.toks \o <<r.v>>], r.st)

\* parse_atom, expr is m.ret.v and f.op is l_paren
parse_atom_after_expr(m, f) ==
    IF m.ret.v = None
    THEN Return(m, RaiseStop("expected expression after", <<f.op.text>>,
                             <<f.op>>, m.st))
    ELSE Return(m, r_paren(m, f, expect(<<<<")">>>>, "Reset", m.st)))

\* a frame that is not a reset context lets a signal through
resume(m, f) ==
    IF m.ret.k \in {"reset", "stop"} THEN Return(m, Result(m))
    ELSE IF f.fn = "cache_left_rec"
    THEN (IF f.pc = "start" THEN cache_left_rec(m, f) ELSE seed_loop(m, f))
    ELSE IF f.pc = "tail" THEN tail(m, f)
    ELSE IF f.fn = "parser"
    THEN (IF f.pc = "start" THEN parser(m, f)
          ELSE IF f.pc = "after_x" THEN parser_after_x(m, f)
          ELSE parser_after_y(m, f))
    ELSE IF f.fn = "parse_factor"
    THEN (IF f.pc = "start" THEN parse_factor(m, f) ELSE parse_factor_after_x(m, f))
    ELSE (IF f.pc = "start" THEN parse_atom(m, f) ELSE parse_atom_after_expr(m, f))

\* one step of the frame on top
step(m, f) ==
    IF f.fn = "optional"
    THEN (IF f.pc = "start" THEN optional_enter(m, f) ELSE optional_exit(m, f))
    ELSE resume(m, f)

\* 2^n steps, or as many as the call takes
RECURSIVE run(_, _)
again(m, n) == IF m.stack = <<>> THEN m ELSE run(n, m)

run(n, m) == IF n = 0 THEN step(m, Top(m)) ELSE again(run(n - 1, m), n - 1)

\* the call of the rule name on the parser s, run to its end
finish(m) == IF m.stack = <<>> THEN Result(m) ELSE [Result(m) EXCEPT !.k = "steps"]

rule(name, s) ==
    finish(run(MaxSteps, [st |-> s, stack |-> <<RuleFrame(name)>>, ret |-> CallSig]))

(***************************************************************************)
(* das/parser.py.  The cursor is it (the tokens taken from the lexer's     *)
(* iterator), buf (the put-back stack) and marks (the stack of reset       *)
(* buffers); log is history: for every rule that marked reset, the tokens  *)
(* to come on entry, the tokens the rule's mark held, the tokens to come   *)
(* after the reset.  Results are as for wes, with k "ok", "ParserError"    *)
(* (WrongToken, EndOfTokens: what marked catches) or "RenderedError".      *)
(***************************************************************************)
NewCursor == [it |-> 0, buf |-> <<>>, marks |-> <<>>, log |-> {}]

Reverse(s) == [k \in 1..Len(s) |-> s[Len(s) + 1 - k]]

\* the tokens the coming calls of get return, in order
Upcoming(c) == Reverse(c.buf) \o SubSeq(toks, c.it + 1, Len(toks))

DasRaise(kind, m, tks, c) ==
    [k |-> kind, v |-> None, st |-> c, e |-> [m |-> m, a |-> <<>>, toks |-> tks]]

das_mark(c) == [c EXCEPT !.marks = Append(@, <<>>)]

das_put(c, tok) == [c EXCEPT !.buf = Append(@, tok)]

RECURSIVE das_put_all(_, _)
das_put_all(c, tks) ==
    IF Len(tks) = 0 THEN c ELSE das_put_all(das_put(c, tks[1]), Tail(tks))

\* the first half of get: from buf, else from the lexer
das_next(c) ==
    IF Len(c.buf) > 0
    THEN Ret(Last(c.buf), [c EXCEPT !.buf = SubSeq(@, 1, Len(@) - 1)])
    ELSE IF c.it >= Len(toks)
    THEN DasRaise("ParserError", "end of tokens", <<>>, c)
    ELSE Ret(toks[c.it + 1], [c EXCEPT !.it = @ + 1])

das_get(c) ==
    Then(das_next(c), LAMBDA r :
        IF Len(r.st.marks) > 0
        THEN Ret(r.v, [r.st EXCEPT !.marks[Len(r.st.marks)] = Append(@, r.v)])
        ELSE r)

FatalKind(fatal) == IF fatal THEN "RenderedError" ELSE "ParserError"

expect_text(tok_text, fatal, c) ==
    Then(das_get(c), LAMBDA r :
        IF ~IsText(r.v) THEN DasRaise(FatalKind(fatal), "expected text", <<r.v>>, r.st)
        ELSE IF tok_text # <<>> /\ r.v.text # tok_text
        THEN DasRaise(FatalKind(fatal), "expected", <<r.v>>, r.st)
        ELSE r)

das_expect_newline(fatal, c) ==
    Then(das_get(c), LAMBDA r :
        IF ~IsNewline(r.v)
        THEN DasRaise(FatalKind(fatal), "expected end of line", <<r.v>>, r.st)
        ELSE r)

\* reset that puts the mark's tokens back first to last
das_reset_forward(c) ==
    IF Len(c.marks) = 0
    THEN DasRaise("ParserError", "cannot reset if no marks", <<>>, c)
    ELSE Ret(None, das_put_all([c EXCEPT !.marks = SubSeq(@, 1, Len(@) - 1)],
                               Last(c.marks)))

das_reset(c) ==
    IF Len(c.marks) = 0
    THEN DasRaise("ParserError", "cannot reset if no marks", <<>>, c)
    ELSE Ret(None, das_put_all([c EXCEPT !.marks = SubSeq(@, 1, Len(@) - 1)],
                               Reverse(Last(c.marks))))

\* n calls of get: the tokens read, or the exception with the tokens read so far
RECURSIVE das_get_n(_, _, _)
das_get_n(n, got, c) ==
    IF n = 0 THEN Ret(got, c)
    ELSE IF das_get(c).k # "ok" THEN [das_get(c) EXCEPT !.v = got]
    ELSE das_get_n(n - 1, Append(got, das_get(c).v), das_get(c).st)

\* the tokens read are put back whether get raised or not
PutBack(r) == [r EXCEPT !.st = das_put_all(r.st, Reverse(r.v))]

peek(n, c) == PutBack(das_get_n(n, <<>>, c))

drop(n, c) == Then(das_get_n(n, <<>>, c), LAMBDA r : Ret(None, r.st))

\* marked: r is the outcome of old_method(self), called after self.mark()
\* in the cursor c
marked(c, r) ==
    IF r.k = "ParserError" \/ (r.k = "ok" /\ r.v = None)
    THEN Then(das_reset(r.st), LAMBDA back :
             Ret(None, [back.st EXCEPT !.log = @ \cup
                           {<<Upcoming(c), Last(r.st.marks), Upcoming(back.st)>>}]))
    ELSE r

\* a label rule that captures the name and not the colon
das_parse_label_nocolon(c) ==
    Then(expect_text(<<>>, FALSE, c), LAMBDA name :
    Then(expect_text(<<":">>, FALSE, name.st), LAMBDA colon :
        Ret(Label(name.v.text, <<name.v>>), colon.st)))

das_parse_label_body(c) ==
    Then(expect_text(<<>>, FALSE, c), LAMBDA name :
    Then(expect_text(<<":">>, FALSE, name.st), LAMBDA colon :
        Ret(Label(name.v.text, <<name.v, colon.v>>), colon.st)))

das_parse_label(c) == marked(c, das_parse_label_body(das_mark(c)))

parse_nullary_or_val_body(c) ==
    Then(expect_text(<<>>, FALSE, c), LAMBDA name_or_val :
    Then(das_expect_newline(FALSE, name_or_val.st), LAMBDA nl :
        IF NAME_RE(name_or_val.v.text)
        THEN Ret(Op(name_or_val.v.text, <<>>, <<name_or_val.v>>), nl.st)
        ELSE IF VAL_RE(name_or_val.v.text)
        THEN Ret(Val(str_to_int(name_or_val.v.text), <<name_or_val.v>>), nl.st)
        ELSE DasRaise("RenderedError", "is not a valid mnemonic or integer",
                      <<name_or_val.v>>, nl.st)))

parse_nullary_or_val(c) == marked(c, parse_nullary_or_val_body(das_mark(c)))

das_parse_unary_body(c) ==
    Then(expect_text(<<>>, FALSE, c), LAMBDA mnemonic :
    Then(expect_text(<<>>, FALSE, mnemonic.st), LAMBDA name_or_val :
    Then(das_expect_newline(TRUE, name_or_val.st), LAMBDA nl :
        IF ~NAME_RE(mnemonic.v.text)
        THEN DasRaise("RenderedError", "is not a valid mnemonic", <<mnemonic.v>>, nl.st)
        ELSE IF VAL_RE(name_or_val.v.text)
        THEN Ret(Op(mnemonic.v.text, <<IntArg(str_to_int(name_or_val.v.text))>>,
                    <<mnemonic.v, name_or_val.v>>), nl.st)
        ELSE IF NAME_RE(name_or_val.v.text)
        THEN Ret(Op(mnemonic.v.text, <<StrArg(name_or_val.v.text)>>,
                    <<mnemonic.v, name_or_val.v>>), nl.st)
        ELSE DasRaise("RenderedError", "is not a valid label or integer",
                      <<name_or_val.v>>, nl.st))))

das_parse_unary(c) == marked(c, das_parse_unary_body(das_mark(c)))

\* parse_stmt after parse_label returned label: the newline after it is dropped
after_label(label) ==
    IF peek(1, label.st).k # "ok" THEN Ret(label.v, peek(1, label.st).st)
    ELSE IF IsNewline(peek(1, label.st).v[1])
    THEN Then(drop(1, peek(1, label.st).st), LAMBDA d : Ret(label.v, d.st))
    ELSE Ret(label.v, peek(1, label.st).st)

das_parse_stmt(c) ==
    Then(das_parse_label(c), LAMBDA label :
        IF label.v # None THEN after_label(label)
        ELSE OrElse(parse_nullary_or_val(label.st), das_parse_unary))

das_parse_eof(c) ==
    Then(das_get(c), LAMBDA tok :
        IF ~IsEof(tok.v)
        THEN DasRaise("RenderedError", "expected end of file", <<tok.v>>, tok.st)
        ELSE Ret(None, tok.st))

(***************************************************************************)
(* Inputs.  A file is any text over TextAlphabet up to MaxTextLen          *)
(* characters, a line of up to MaxLineToks tokens of LineVocab, the same   *)
(* after a first statement, or one of the scenarios of the documentation;  *)
(* an expression                                                           *)
(* is a line of up to MaxExprToks tokens of ExprVocab (up to MaxDeepToks   *)
(* of DeepVocab) separated by blanks, a chain of up to MaxChainOps         *)
(* operators of one level, or a mix of two operators of any levels.        *)
(***************************************************************************)
TextAlphabet == {"a", "1", "_", "+", ":", ",", " ", "\n", "#"}

RECURSIVE TextsOfLen(_)
TextsOfLen(n) ==
    IF n = 0 THEN {<<>>}
    ELSE {Append(t, c) : t \in TextsOfLen(n - 1), c \in TextAlphabet}

Scenarios ==
    {<<"f","o","o",":","\n"," "," ","l","d","a"," ","1","\n">>,
     <<"4","2","\n">>,
     <<"+","3",":"," ","o","u","t","\n">>,
     <<"+"," ","3",":"," ","o","u","t","\n">>,
     <<"a","d","d"," ","a",","," ","b","*","2","\n">>,
     <<"a","d","d"," ","a"," ",","," ","b","\n">>,
     <<"a","d","d"," ","a"," ","b","\n">>}


Atoms == {<<"a">>, <<"1">>}

LevelNames ==
    {"parse_power", "parse_term", "parse_sum", "parse_shift", "parse_and",
     "parse_xor", "parse_expr"}

OpsOf(name) == {ExprOps(name)[i] : i \in 1..Len(ExprOps(name))}

AllOps == UNION {OpsOf(name) : name \in LevelNames}

ExprVocab == Atoms \cup AllOps \cup {<<"~">>, <<"(">>, <<")">>}

DeepVocab == {<<"a">>, <<"-">>, <<"*">>, <<"(">>, <<")">>}

RECURSIVE WordsOfLen(_, _)
WordsOfLen(V, n) ==
    IF n = 0 THEN {<<>>}
    ELSE {Append(ws, w) : ws \in WordsOfLen(V, n - 1), w \in V}

\* x0 op1 x1 ... opn xn with the operators of one level
RECURSIVE ChainsOf(_, _)
ChainsOf(name, n) ==
    IF n = 0 THEN {<<x>> : x \in Atoms}
    ELSE {c \o <<op, x>> : c \in ChainsOf(name, n - 1), op \in OpsOf(name), x \in Atoms}

RECURSIVE Join(_)
Join(ws) ==
    IF Len(ws) = 0 THEN <<>>
    ELSE IF Len(ws) = 1 THEN ws[1]
    ELSE ws[1] \o <<" ">> \o Join(Tail(ws))

\* a op1 a op2 a, for every two binary operators
Mixes == {<<<<"a">>, op1, <<"a">>, op2, <<"a">>>> : op1 \in AllOps, op2 \in AllOps}

ExprWords ==
    UNION {WordsOfLen(ExprVocab, n) : n \in 0..MaxExprToks}
    \cup UNION {WordsOfLen(DeepVocab, n) : n \in 0..MaxDeepToks}
    \cup UNION {ChainsOf(name, n) : name \in LevelNames, n \in 0..MaxChainOps}
    \cup Mixes

ExprInputs == {Join(ws) : ws \in ExprWords}

\* a line of three to MaxLineToks tokens separated by blanks
LineVocab == {<<"a">>, <<"1">>, <<"_">>, <<"+">>, <<",">>, <<":">>}

LineInputs == {Join(ws) : ws \in UNION {WordsOfLen(LineVocab, n) : n \in 3..MaxLineToks}}

\* a first statement and, after it, a line of three tokens
Leaders == {<<"a", ":", " ">>, <<"1", ":", "\n">>, <<"a", "\n">>,
            <<"+", " ", "1", ":", " ">>}

TwoStmtInputs == {l \o Join(ws) : l \in Leaders, ws \in WordsOfLen(LineVocab, 3)}

FileInputs ==
    UNION {TextsOfLen(n) : n \in 0..MaxTextLen}
    \cup LineInputs \cup TwoStmtInputs \cup Scenarios

(***************************************************************************)
(* The wes parse of a file: parse_file's loop, one statement per step,     *)
(* then parse_eof.  status is where parse_file stands: "parsing" in the    *)
(* loop, "eof" before parse_eof, then "file" (a File was returned), "stop" *)
(* (Stop was raised to the caller) or "reset" (Reset was raised to it).    *)
(* last records the last rule call: the cursor on entry and the result.    *)
(***************************************************************************)
NoCall == [rule |-> "", entry |-> 0, k |-> "", v |-> None]

\* the cursor beside dcur and the machine, where no specification runs them
NoShadow == [cur |-> NewCursor, got |-> <<>>, ops |-> 0]

NoMachine == [st |-> NewParser, stack |-> <<>>, ret |-> CallSig]

InitWes ==
    /\ text \in FileInputs
    /\ toks = Lex(text)
    /\ st = NewParser /\ stmts = <<>> /\ status = "parsing" /\ err = NoErr
    /\ last = NoCall
    /\ dcur = NewCursor /\ dstmts = <<>> /\ dstatus = "off" /\ dlast = NoCall
    /\ lx = NewLexer /\ yielded = <<>> /\ shadow = NoShadow /\ mach = NoMachine

\* one turn of "while stmt := self.parse_stmt()"
ParseStmt ==
    /\ status = "parsing"
    /\ LET r == parse_stmt(st)
       IN /\ st' = r.st
          /\ last' = [rule |-> "parse_stmt", entry |-> st.pos, k |-> r.k, v |-> r.v]
          /\ err' = r.e
          /\ stmts' = IF r.k = "ok" /\ r.v # None THEN Append(stmts, r.v) ELSE stmts
          /\ status' = IF r.k = "ok" THEN (IF r.v # None THEN "parsing" ELSE "eof")
                       ELSE r.k
    /\ UNCHANGED <<text, toks, dcur, dstmts, dstatus, dlast, lx, yielded, shadow, mach>>

\* self.parse_eof() and the return of File(tuple(stmts))
ParseEof ==
    /\ status = "eof"
    /\ LET r == parse_eof(st)
       IN /\ st' = r.st
          /\ last' = [rule |-> "parse_eof", entry |-> st.pos, k |-> r.k, v |-> r.v]
          /\ err' = r.e
          /\ status' = IF r.k = "ok" THEN "file" ELSE r.k
    /\ UNCHANGED <<text, toks, stmts, dcur, dstmts, dstatus, dlast, lx, yielded, shadow, mach>>

NextWes == ParseStmt \/ ParseEof

Spec == InitWes /\ [][NextWes]_vars

(***************************************************************************)
(* A rule of the expression grammar called on a fresh parser, as           *)
(* Parser.from_str(text).parse_expr() does.  status is "expr" before the   *)
(* call, then "ok" (the rule returned, None included), "stop" or "reset".  *)
(***************************************************************************)
InitExpr ==
    /\ text \in ExprInputs
    /\ toks = Lex(text)
    /\ st = NewParser /\ stmts = <<>> /\ status = "expr" /\ err = NoErr
    /\ last = NoCall
    /\ dcur = NewCursor /\ dstmts = <<>> /\ dstatus = "off" /\ dlast = NoCall
    /\ lx = NewLexer /\ yielded = <<>> /\ shadow = NoShadow /\ mach = NoMachine

CallRule(name) ==
    /\ status = "expr"
    /\ LET r == rule(name, st)
       IN /\ st' = r.st
          /\ last' = [rule |-> name, entry |-> st.pos, k |-> r.k, v |-> r.v]
          /\ err' = r.e
          /\ status' = r.k
    /\ UNCHANGED <<text, toks, stmts, dcur, dstmts, dstatus, dlast, lx, yielded, shadow, mach>>

ParseExpr == CallRule("parse_expr")

ParseAtom == CallRule("parse_atom")

NextExpr == ParseExpr \/ ParseAtom

SpecExpr == InitExpr /\ [][NextExpr]_vars

(***************************************************************************)
(* The das parse of a file, as the wes one: dstatus is "parsing", "eof",   *)
(* then "file", "RenderedError" or "ParserError" (raised to the caller).   *)
(***************************************************************************)
InitDas ==
    /\ text \in FileInputs
    /\ toks = Lex(text)
    /\ st = NewParser /\ stmts = <<>> /\ status = "off" /\ err = NoErr
    /\ last = NoCall
    /\ dcur = NewCursor /\ dstmts = <<>> /\ dstatus = "parsing" /\ dlast = NoCall
    /\ lx = NewLexer /\ yielded = <<>> /\ shadow = NoShadow /\ mach = NoMachine

DasParseStmt ==
    /\ dstatus = "parsing"
    /\ LET r == das_parse_stmt(dcur)
       IN /\ dcur' = r.st
          /\ dlast' = [rule |-> "parse_stmt", entry |-> Upcoming(dcur),
                       k |-> r.k, v |-> r.v]
          /\ dstmts' = IF r.k = "ok" /\ r.v # None THEN Append(dstmts, r.v) ELSE dstmts
          /\ dstatus' = IF r.k = "ok" THEN (IF r.v # None THEN "parsing" ELSE "eof")
                        ELSE r.k
    /\ UNCHANGED <<text, toks, st, stmts, status, err, last, lx, yielded, shadow, mach>>

DasParseEof ==
    /\ dstatus = "eof"
    /\ LET r == das_parse_eof(dcur)
       IN /\ dcur' = r.st
          /\ dlast' = [rule |-> "parse_eof", entry |-> Upcoming(dcur),
                       k |-> r.k, v |-> r.v]
          /\ dstatus' = IF r.k = "ok" THEN "file" ELSE r.k
    /\ UNCHANGED <<text, toks, st, stmts, status, err, last, dstmts, lx, yielded, shadow, mach>>

NextDas == DasParseStmt \/ DasParseEof

SpecDas == InitDas /\ [][NextDas]_vars

(***************************************************************************)
(* Both parsers: a file is read by the wes parser and, beside it, by the   *)
(* das parser; an expression is read by the wes expression rules.          *)
(***************************************************************************)
InitAll ==
    /\ \/ text \in FileInputs /\ status = "parsing" /\ dstatus = "parsing"
       \/ text \in ExprInputs /\ status = "expr" /\ dstatus = "off"
    /\ toks = Lex(text)
    /\ st = NewParser /\ stmts = <<>> /\ err = NoErr /\ last = NoCall
    /\ dcur = NewCursor /\ dstmts = <<>> /\ dlast = NoCall
    /\ lx = NewLexer /\ yielded = <<>> /\ shadow = NoShadow /\ mach = NoMachine

NextAll == NextWes \/ NextExpr \/ NextDas

SpecAll == InitAll /\ [][NextAll]_vars

(***************************************************************************)
(* The lexer alone, iterated to its end: one step per line read.  lx is    *)
(* the lexer (the read offset of its buffer, pos, line_num), toks the      *)
(* tokens yielded so far; status is "lexing", then "lexed" (the generator  *)
(* returned).                                                              *)
(***************************************************************************)
LexAlphabet == {"a", ":", "#", ";", " ", "\n"}

RECURSIVE LexTextsOfLen(_)
LexTextsOfLen(n) ==
    IF n = 0 THEN {<<>>}
    ELSE {Append(t, c) : t \in LexTextsOfLen(n - 1), c \in LexAlphabet}

LexInputs == UNION {LexTextsOfLen(n) : n \in 0..MaxLexLen}

InitLex ==
    /\ text \in LexInputs
    /\ toks = <<>> /\ lx = NewLexer /\ status = "lexing"
    /\ st = NewParser /\ stmts = <<>> /\ err = NoErr /\ last = NoCall
    /\ dcur = NewCursor /\ dstmts = <<>> /\ dstatus = "off" /\ dlast = NoCall
    /\ yielded = <<>> /\ shadow = NoShadow /\ mach = NoMachine

\* the lexer after get_line returned line, read as raw
NextLine(raw, line) ==
    [off |-> lx.off + Len(raw), pos |-> lx.pos + Len(line),
     line_num |-> lx.line_num + 1]

\* get_line returns an empty line or a comment line: the inner loop goes on
LexSkip ==
    /\ status = "lexing"
    /\ Len(readline(text, lx.off)) > 0
    /\ is_empty_line(get_line(readline(text, lx.off)))
    /\ lx' = NextLine(readline(text, lx.off), get_line(readline(text, lx.off)))
    /\ UNCHANGED <<text, toks, st, stmts, status, err, last, dcur, dstmts, dstatus,
                   dlast, yielded, shadow, mach>>

\* get_line returns a line with content: its tokens and its newline token
LexLine ==
    /\ status = "lexing"
    /\ Len(readline(text, lx.off)) > 0
    /\ ~is_empty_line(get_line(readline(text, lx.off)))
    /\ LET line == get_line(readline(text, lx.off))
       IN toks' = toks \o line_tokens(tokenize(line), 1, 0, lx.pos, lx.line_num + 1)
                       \o <<newline_token(line, lx.pos, lx.line_num + 1)>>
    /\ lx' = NextLine(readline(text, lx.off), get_line(readline(text, lx.off)))
    /\ UNCHANGED <<text, st, stmts, status, err, last, dcur, dstmts, dstatus,
                   dlast, yielded, shadow, mach>>

\* get_line raises Eof: the Eof token, and the generator returns
LexEof ==
    /\ status = "lexing"
    /\ Len(readline(text, lx.off)) = 0
    /\ toks' = Append(toks, eof_token(lx.pos, lx.line_num))
    /\ status' = "lexed"
    /\ UNCHANGED <<text, st, stmts, err, last, dcur, dstmts, dstatus, dlast,
                   lx, yielded, shadow, mach>>

NextLex == LexSkip \/ LexLine \/ LexEof

SpecLex == InitLex /\ [][NextLex]_vars

\* the consumer's for loop asks for the next token until the generator returns
InitLexFair == InitLex /\ Len(text) <= MaxFairLen

SpecLexFair == InitLexFair /\ [][NextLex]_vars /\ WF_vars(NextLex)

\* the stepwise lexer yields what Lexer.__iter__ yields as a whole
LexAgrees == status = "lexed" => toks = Lex(text)

(***************************************************************************)
(* tokenize alone, on any string: yielded is what it yields; status is     *)
(* "tokenize", then "tokenized".                                           *)
(***************************************************************************)
InitTokenize ==
    /\ text \in LexInputs
    /\ toks = <<>> /\ lx = NewLexer /\ status = "tokenize"
    /\ st = NewParser /\ stmts = <<>> /\ err = NoErr /\ last = NoCall
    /\ dcur = NewCursor /\ dstmts = <<>> /\ dstatus = "off" /\ dlast = NoCall
    /\ yielded = <<>> /\ shadow = NoShadow /\ mach = NoMachine

Tokenize ==
    /\ status = "tokenize"
    /\ yielded' = tokenize(text)
    /\ status' = "tokenized"
    /\ UNCHANGED <<text, toks, st, stmts, err, last, dcur, dstmts, dstatus, dlast,
                   lx, shadow, mach>>

SpecTokenize == InitTokenize /\ [][Tokenize]_vars

(***************************************************************************)
(* The cursor of the das parser alone, under any calls of mark, get, peek, *)
(* drop and reset (a caller may catch what they raise).  dcur is the       *)
(* cursor and yielded what its get calls returned or raised; shadow.cur is *)
(* a second cursor on the same tokens that is given every call but the     *)
(* peeks, shadow.got what its get calls returned or raised, shadow.ops the *)
(* number of calls made.                                                   *)
(***************************************************************************)
CursorInputs ==
    {t \in LexInputs : Len(t) <= MaxCursorLen /\ \A i \in 1..Len(t) : t[i] \in {"a", ":", " "}}

InitCursor ==
    /\ text \in CursorInputs
    /\ toks = Lex(text)
    /\ dcur = NewCursor /\ dstatus = "cursor" /\ status = "cursor"
    /\ yielded = <<>> /\ shadow = NoShadow
    /\ st = NewParser /\ stmts = <<>> /\ err = NoErr /\ last = NoCall
    /\ dstmts = <<>> /\ dlast = NoCall
    /\ lx = NewLexer /\ mach = NoMachine

\* what a call of get gave its caller: the token, or what was raised
Outcome(r) == IF r.k = "ok" THEN r.v ELSE [raised |-> r.e.m]

CurMark ==
    /\ dstatus = "cursor" /\ shadow.ops < MaxOps
    /\ dcur' = das_mark(dcur)
    /\ shadow' = [shadow EXCEPT !.cur = das_mark(@), !.ops = @ + 1]
    /\ UNCHANGED <<text, toks, st, stmts, status, err, last, dstmts, dstatus, dlast,
                   lx, yielded, mach>>

CurGet ==
    /\ dstatus = "cursor" /\ shadow.ops < MaxOps
    /\ dcur' = das_get(dcur).st
    /\ yielded' = Append(yielded, Outcome(das_get(dcur)))
    /\ shadow' = [cur |-> das_get(shadow.cur).st,
                  got |-> Append(shadow.got, Outcome(das_get(shadow.cur))),
                  ops |-> shadow.ops + 1]
    /\ UNCHANGED <<text, toks, st, stmts, status, err, last, dstmts, dstatus, dlast,
                   lx, mach>>

\* peek(n): the shadow cursor is not given the call
CurPeek(n) ==
    /\ dstatus = "cursor" /\ shadow.ops < MaxOps
    /\ dcur' = peek(n, dcur).st
    /\ shadow' = [shadow EXCEPT !.ops = @ + 1]
    /\ UNCHANGED <<text, toks, st, stmts, status, err, last, dstmts, dstatus, dlast,
                   lx, yielded, mach>>

CurDrop(n) ==
    /\ dstatus = "cursor" /\ shadow.ops < MaxOps
    /\ dcur' = drop(n, dcur).st
    /\ shadow' = [shadow EXCEPT !.cur = drop(n, @).st, !.ops = @ + 1]
    /\ UNCHANGED <<text, toks, st, stmts, status, err, last, dstmts, dstatus, dlast,
                   lx, yielded, mach>>

CurReset ==
    /\ dstatus = "cursor" /\ shadow.ops < MaxOps
    /\ dcur' = das_reset(dcur).st
    /\ shadow' = [shadow EXCEPT !.cur = das_reset(@).st, !.ops = @ + 1]
    /\ UNCHANGED <<text, toks, st, stmts, status, err, last, dstmts, dstatus, dlast,
                   lx, yielded, mach>>

NextCursor ==
    \/ CurMark
    \/ CurGet
    \/ \E n \in 1..MaxPeek : CurPeek(n)
    \/ \E n \in 1..MaxPeek : CurDrop(n)
    \/ CurReset

SpecCursor == InitCursor /\ [][NextCursor]_vars

(***************************************************************************)
(* The expression rules one step at a time: mach is the machine of a call  *)
(* of the rule last.rule on a new parser, Step one step of the frame on    *)
(* top of its stack.  The interpreter keeps running the call, which is the *)
(* fairness of Step.                                                       *)
(***************************************************************************)
MachineRules == {"parse_expr", "parse_factor", "parse_atom"}

\* x op1 y op2 z with the operators the short inputs have
MachineMixes ==
    {<<<<"a">>, op1, <<"a">>, op2, <<"a">>>> : op1, op2 \in {<<"*">>, <<"-">>}}

MachineInputs ==
    {Join(ws) : ws \in UNION {WordsOfLen(DeepVocab, n) : n \in 0..MaxMachToks}
                          \cup MachineMixes}

InitMachine ==
    /\ text \in MachineInputs
    /\ toks = Lex(text)
    /\ \E name \in MachineRules :
           /\ mach = [st |-> NewParser, stack |-> <<RuleFrame(name)>>, ret |-> CallSig]
           /\ last = [NoCall EXCEPT !.rule = name]
    /\ status = "machine"
    /\ st = NewParser /\ stmts = <<>> /\ err = NoErr
    /\ dcur = NewCursor /\ dstmts = <<>> /\ dstatus = "off" /\ dlast = NoCall
    /\ lx = NewLexer /\ yielded = <<>> /\ shadow = NoShadow

Step ==
    /\ status = "machine"
    /\ mach.stack # <<>>
    /\ mach' = step(mach, Top(mach))
    /\ UNCHANGED <<text, toks, st, stmts, status, err, last, dcur, dstmts, dstatus,
                   dlast, lx, yielded, shadow>>

SpecMachine == InitMachine /\ [][Step]_vars /\ WF_vars(Step)

\* the call stepped to its end is the call run as a whole
MachineAgrees ==
    (status = "machine" /\ mach.stack = <<>>) => Result(mach) = rule(last.rule, NewParser)

(***************************************************************************)
(* One token text, classified by the three rules that tell a name from an  *)
(* integer: parse_nullary on the line of the token, parse_arg_token on the *)
(* token, parse_atom on the token.  yielded is what each made of it:       *)
(* "name", "integer" or "neither"; status is "classify", then "classified".*)
(***************************************************************************)
TokAlphabet == {"a", "x", "0", "1", "_", "+"}

RECURSIVE TokTextsOfLen(_)
TokTextsOfLen(n) ==
    IF n = 0 THEN {<<>>}
    ELSE {Append(t, c) : t \in TokTextsOfLen(n - 1), c \in TokAlphabet}

TokInputs == UNION {TokTextsOfLen(n) : n \in 1..MaxTokLen}

InitClassify ==
    /\ text \in TokInputs
    /\ toks = Lex(text)
    /\ status = "classify"
    /\ st = NewParser /\ stmts = <<>> /\ err = NoErr /\ last = NoCall
    /\ dcur = NewCursor /\ dstmts = <<>> /\ dstatus = "off" /\ dlast = NoCall
    /\ lx = NewLexer /\ yielded = <<>> /\ shadow = NoShadow /\ mach = NoMachine

\* parse_nullary: an Op for a name, a Val for an integer, Stop for neither
NullaryKind(r) ==
    IF r.k # "ok" \/ r.v = None THEN "neither"
    ELSE IF r.v.type = "Op" THEN "name" ELSE "integer"

\* parse_arg_token: an int, a str, or Stop
ArgKind(r) ==
    IF r.k # "ok" THEN "neither"
    ELSE IF "int" \in DOMAIN r.v THEN "integer" ELSE "name"

\* parse_atom: a Val, a Name, or Reset (None under optional)
AtomKind(r) ==
    IF r.k # "ok" \/ r.v = None THEN "neither"
    ELSE IF r.v.type = "Val" THEN "integer" ELSE "name"

Classify ==
    /\ status = "classify"
    /\ yielded' = <<NullaryKind(parse_nullary(st)),
                    ArgKind(parse_arg_token(toks[1], st)),
                    AtomKind(rule("parse_atom", st))>>
    /\ status' = "classified"
    /\ UNCHANGED <<text, toks, st, stmts, err, last, dcur, dstmts, dstatus, dlast,
                   lx, shadow, mach>>

SpecClassify == InitClassify /\ [][Classify]_vars

(***************************************************************************)
(* Properties.  TextToks is the line of the expression input: the tokens   *)
(* before its Newline.                                                     *)
(***************************************************************************)
TextToks == SelectSeq(toks, IsText)

\* the tokens are x0 op1 x1 ... opn xn, n >= 2, the operators of level name
IsChain(name) ==
    /\ Len(toks) = Len(TextToks) + 2
    /\ Len(TextToks) >= 5 /\ Len(TextToks) % 2 = 1
    /\ \A k \in 1..Len(TextToks) :
          IF k % 2 = 1 THEN toks[k].text \in Atoms ELSE toks[k].text \in OpsOf(name)

AtomNode(tok) ==
    IF tok.text = <<"1">> THEN Val(1, <<tok>>) ELSE Name(tok.text, <<tok>>)

\* BinExpr(...BinExpr(BinExpr(x0, op1, x1), op2, x2)..., opn, xn)
RECURSIVE LeftNested(_)
LeftNested(n) ==
    IF n = 0 THEN AtomNode(toks[1])
    ELSE BinExpr(LeftNested(n - 1), toks[2 * n].text, AtomNode(toks[2 * n + 1]),
                 SubSeq(toks, 1, 2 * n + 1))

\* C1: parse_expr of a chain x0 op1 x1 ... opn xn (n >= 2) of atoms joined by
\* operators of one binary level returns the left-nested BinExpr over the
\* whole chain, the cursor after its last token.
C1_LeftAssociative ==
    (last.rule = "parse_expr" /\ \E name \in LevelNames : IsChain(name))
        => /\ status = "ok"
           /\ last.v = LeftNested((Len(TextToks) - 1) \div 2)
           /\ st.pos = Len(TextToks)

\* a chain of three operators was parsed: two BinExpr on the left spine
C1_Witness ==
    /\ last.rule = "parse_expr" /\ status = "ok"
    /\ \E name \in LevelNames : IsChain(name)
    /\ Len(TextToks) = 7
    /\ last.v.type = "BinExpr"
    /\ last.v.x.type = "BinExpr"
    /\ last.v.x.x.type = "BinExpr"
    /\ last.v.y.type \in {"Name", "Val"}

\* every call of an expression rule ends within the steps it is given
RulesFinish == status # "steps"


(***************************************************************************)
(* The reference parser of the expression grammar: no cache, no seed; a    *)
(* binary level is "match next-tighter; while the next token is one of the *)
(* operators: consume it, require a next-tighter expression, combine".     *)
(* The unary level and the atom are the code's.  It runs on a machine of   *)
(* its own frames, the cursor being m.st.pos.                              *)
(***************************************************************************)
RefFrame(name) ==
    IF name = "parse_atom" THEN Frame("ref_atom", name)
    ELSE IF name = "parse_factor" THEN Frame("ref_factor", name)
    ELSE Frame("ref_level", name)

\* the next token is a Text token with one of the texts ops
RefNextIs(m, ops) ==
    /\ m.st.pos < Len(toks)
    /\ IsText(toks[m.st.pos + 1])
    /\ InAlts(toks[m.st.pos + 1].text, ops)

RefNext(m) == toks[m.st.pos + 1]

RefAdvance(m) == [m.st EXCEPT !.pos = @ + 1]

ref_level(m, f) ==
    Call(m, m.st, [f EXCEPT !.pc = "first"], RefFrame(ExprRhs(f.name)))

\* the head of the while loop, acc the expression so far
ref_level_loop(m, f, acc) ==
    IF RefNextIs(m, ExprOps(f.name))
    THEN Call(m, RefAdvance(m), [f EXCEPT !.pc = "rhs", !.x = acc, !.op = RefNext(m)],
              RefFrame(ExprRhs(f.name)))
    ELSE Return(m, Ret(acc, m.st))

ref_level_first(m, f) ==
    IF m.ret.v = None THEN Return(m, Ret(None, m.st))
    ELSE ref_level_loop(m, f, m.ret.v)

ref_level_rhs(m, f) ==
    IF m.ret.v = None
    THEN Return(m, RaiseStop("expected expression after operator",
                             <<f.op.text>>, <<f.op>>, m.st))
    ELSE ref_level_loop(m, f, BinExpr(f.x, f.op.text, m.ret.v,
                                      f.x.toks \o <<f.op>> \o m.ret.v.toks))

ref_factor(m, f) ==
    IF RefNextIs(m, <<<<"-">>, <<"~">>>>)
    THEN Call(m, RefAdvance(m), [f EXCEPT !.pc = "operand", !.op = RefNext(m)],
              RefFrame("parse_factor"))
    ELSE Call(m, m.st, [f EXCEPT !.pc = "tail"], RefFrame("parse_power"))

ref_factor_operand(m, f) ==
    IF m.ret.v = None
    THEN Return(m, RaiseStop("expected expression after operator",
                             <<f.op.text>>, <<f.op>>, m.st))
    ELSE Return(m, Ret(UnExpr(f.op.text, m.ret.v, <<f.op>> \o m.ret.v.toks), m.st))

ref_atom(m, f) ==
    IF RefNextIs(m, <<<<"(">>>>)
    THEN Call(m, RefAdvance(m),
              [f EXCEPT !.pc = "inner", !.pos = m.st.pos, !.op = RefNext(m)],
              RefFrame("parse_expr"))
    ELSE IF m.st.pos < Len(toks) /\ IsText(RefNext(m)) /\ VAL_RE(RefNext(m).text)
    THEN Return(m, Ret(Val(str_to_int(RefNext(m).text), <<RefNext(m)>>), RefAdvance(m)))
    ELSE IF m.st.pos < Len(toks) /\ IsText(RefNext(m)) /\ NAME_RE(RefNext(m).text)
    THEN Return(m, Ret(Name(RefNext(m).text, <<RefNext(m)>>), RefAdvance(m)))
    ELSE Return(m, Ret(None, m.st))

\* the atom after "(" and the inner expression: ")" closes it, anything
\* else is no match from the "("
ref_atom_inner(m, f) ==
    IF m.ret.v = None
    THEN Return(m, RaiseStop("expected expression after", <<f.op.text>>,
                             <<f.op>>, m.st))
    ELSE IF RefNextIs(m, <<<<")">>>>)
    THEN Return(m, Ret([m.ret.v EXCEPT !.toks = <<f.op>> \o @ \o <<RefNext(m)>>],
                       RefAdvance(m)))
    ELSE Return(m, Ret(None, [m.st EXCEPT !.pos = f.pos]))

ref_step(m, f) ==
    IF m.ret.k = "stop" \/ f.pc = "tail" THEN Return(m, Result(m))
    ELSE IF f.fn = "ref_level"
    THEN (IF f.pc = "start" THEN ref_level(m, f)
          ELSE IF f.pc = "first" THEN ref_level_first(m, f)
          ELSE ref_level_rhs(m, f))
    ELSE IF f.fn = "ref_factor"
    THEN (IF f.pc = "start" THEN ref_factor(m, f) ELSE ref_factor_operand(m, f))
    ELSE (IF f.pc = "start" THEN ref_atom(m, f) ELSE ref_atom_inner(m, f))

RECURSIVE ref_run(_, _)
ref_again(m, n) == IF m.stack = <<>> THEN m ELSE ref_run(n, m)

ref_run(n, m) == IF n = 0 THEN ref_step(m, Top(m)) ELSE ref_again(ref_run(n - 1, m), n - 1)

\* the reference parse of the whole input as an expression
RefParse ==
    finish(ref_run(MaxSteps, [st |-> NewParser, stack |-> <<RefFrame("parse_expr")>>,
                              ret |-> CallSig]))

SameOutcome(r) ==
    /\ status = r.k
    /\ status \in {"ok", "stop"}
    /\ status = "ok" => last.v = r.v /\ st.pos = r.st.pos
    /\ status = "stop" => err = r.e /\ st.pos = r.st.pos

\* C2: on every input, parse_expr with its cache and seed-growing loop ends
\* as the cache-free reference parser does: the same AST and end position,
\* or no match, or the same fatal signal at the same token.
C2_CacheTransparent == last.rule = "parse_expr" => SameOutcome(RefParse)

\* an expression was parsed with results stored in the cache at an inner
\* position (a right operand or a parenthesised expression)
C2_Witness ==
    /\ last.rule = "parse_expr" /\ status = "ok"
    /\ last.v.type = "BinExpr"
    /\ \E key \in DOMAIN st.cache :
          /\ key[1] > 0
          /\ st.cache[key].res # None
          /\ st.cache[key].end > key[1] + 1


\* C3: parse_file ends by returning a File or by raising one Stop: Reset
\* never reaches its caller, the token stream is never read past Eof, and
\* every statement the loop returns moved the cursor forward, so that the
\* loop ends.
C3_FileOrStop ==
    /\ status \in {"parsing", "eof", "file", "stop"}
    /\ ~st.eot
    /\ st.pos <= Len(toks)
    /\ status = "stop" => err # NoErr /\ Len(st.raised) = 1
    /\ status = "file" => st.pos = Len(toks) /\ Len(st.raised) = 0
    /\ (last.rule = "parse_stmt" /\ status = "parsing") => st.pos > last.entry

\* a parse that returned a statement, backtracked and then raised Stop
C3_Witness ==
    /\ status = "stop"
    /\ Len(stmts) >= 1
    /\ \E e \in st.log : e[1] >= 1 /\ e[2] > e[1]


\* C4: a rule run under optional, maybe, a reset context or marked that
\* yields no match leaves the cursor where it was on entry: every backtrack
\* caught rewound to the entry position (wes) or left the same tokens to
\* come, in the same order (das), and a rule that returned None left the
\* parser at the position of its call.
C4_BacktrackRestores ==
    /\ \A e \in st.log : e[3] = e[1]
    /\ \A e \in dcur.log : e[3] = e[1]
    /\ (last.rule \in {"parse_stmt", "parse_expr", "parse_atom"}
            /\ last.k = "ok" /\ last.v = None) => st.pos = last.entry
    /\ (dlast.rule = "parse_stmt" /\ dlast.k = "ok" /\ dlast.v = None)
            => Upcoming(dcur) = dlast.entry

\* both parsers backtracked over two tokens or more, different ones
C4_Witness ==
    /\ \E e \in st.log : e[2] >= e[1] + 2
    /\ \E e \in dcur.log : Len(e[2]) >= 2 /\ e[2][1] # e[2][2]

\* C5: a Stop is raised at most once in a parse and is what the caller
\* gets: the same message and tokens, the cursor where it was at the raise,
\* and no reset context catching anything after it.
C5_StopPropagates ==
    /\ Len(st.raised) <= 1
    /\ Len(st.raised) = 1 <=> status = "stop"
    /\ status = "stop" =>
          /\ err = [m |-> st.raised[1].m, a |-> st.raised[1].a,
                    toks |-> st.raised[1].toks]
          /\ st.pos = st.raised[1].pos
          /\ st.log = st.raised[1].log

\* a Stop raised inside a parenthesised expression, three tokens or more in
\* and after a backtrack, reached the caller of parse_expr
C5_Witness ==
    /\ status = "stop" /\ last.rule = "parse_expr"
    /\ toks[1].text = <<"(">>
    /\ st.raised[1].pos >= 3
    /\ st.log # {}


\* the statement entered at p starts with the Text tokens t1 t2 t3, t2 and
\* t3 not ":", t3 not ","
ThreeTexts(p) ==
    /\ p + 3 <= Len(toks)
    /\ \A k \in 1..3 : IsText(toks[p + k])
    /\ toks[p + 2].text # <<":">>
    /\ toks[p + 3].text \notin {<<":">>, <<",">>}

\* C6: parse_stmt on a statement that starts with three Text tokens t1 t2 t3,
\* t2 and t3 not ":" and t3 not ",", raises Stop "expected ','" with t3 as
\* its token, the cursor after t3.
C6_MissingCommaFatal ==
    (last.rule = "parse_stmt" /\ ThreeTexts(last.entry))
        => /\ status = "stop"
           /\ err = [m |-> "expected", a |-> <<<<",">>>>,
                     toks |-> <<toks[last.entry + 3]>>]
           /\ st.pos = last.entry + 3

\* the case happened at the second statement of a file
C6_Witness ==
    /\ last.rule = "parse_stmt" /\ ThreeTexts(last.entry)
    /\ last.entry > 0
    /\ status = "stop"

ColonAfter(p, n) == p + n + 1 <= Len(toks) /\ toks[p + n + 1].text = <<":">>

\* the cursor after a statement of n tokens entered at p, with the Newline
\* after it when there is one
AfterNewline(p, n) == IF IsNewline(toks[p + n + 1]) THEN p + n + 1 ELSE p + n

FooLda == <<"f","o","o",":","\n"," "," ","l","d","a"," ","1","\n">>

\* C7: parse_stmt returns the first alternative that matches: an integer
\* and ":" give an absolute Offset, a sign, an integer and ":" a relative
\* Offset, a name and ":" a Label, each with the Newline after it consumed
\* when there is one, and "foo:\n  lda 1\n" gives Label foo, Op lda (1).
C7_OrderedChoice ==
    /\ (last.rule = "parse_stmt" /\ IsText(toks[last.entry + 1])
            /\ ColonAfter(last.entry, 1) /\ VAL_RE(toks[last.entry + 1].text))
        => /\ status = "parsing"
           /\ last.v.type = "Offset" /\ last.v.relative = NoSign
           /\ st.pos = AfterNewline(last.entry, 2)
    /\ (last.rule = "parse_stmt" /\ toks[last.entry + 1].text \in {<<"+">>, <<"-">>}
            /\ ColonAfter(last.entry, 2) /\ VAL_RE(toks[last.entry + 2].text))
        => /\ status = "parsing"
           /\ last.v.type = "Offset"
           /\ last.v.relative = toks[last.entry + 1].text
           /\ st.pos = AfterNewline(last.entry, 3)
    /\ (last.rule = "parse_stmt" /\ IsText(toks[last.entry + 1])
            /\ ColonAfter(last.entry, 1) /\ NAME_RE(toks[last.entry + 1].text))
        => /\ status = "parsing"
           /\ last.v.type = "Label" /\ last.v.name = toks[last.entry + 1].text
           /\ st.pos = AfterNewline(last.entry, 2)
    /\ (text = FooLda /\ status = "file")
        => /\ Len(stmts) = 2
           /\ stmts[1].type = "Label" /\ stmts[1].name = <<"f","o","o">>
           /\ stmts[2].type = "Op" /\ stmts[2].mnemonic = <<"l","d","a">>
           /\ stmts[2].args = <<IntArg(1)>>

\* C7 for the tokens that have one of the two forms only
C7_OneForm ==
    (last.rule = "parse_stmt" /\ VAL_RE(toks[last.entry + 1].text)
        /\ NAME_RE(toks[last.entry + 1].text))
    \/ C7_OrderedChoice

AddExpr == <<"a","d","d"," ","a",","," ","b","*","2","\n">>
AddNames == <<"a","d","d"," ","a"," ",","," ","b","\n">>

\* C8 as stated: "add a, b*2\n" gives Op add with the arguments Name a and
\* BinExpr(Name b, *, Val 2).
C8_ExprArgs ==
    (text = AddExpr /\ last.rule = "parse_stmt" /\ last.entry = 0)
        => /\ status = "parsing"
           /\ last.v.type = "Op" /\ last.v.mnemonic = <<"a","d","d">>
           /\ Len(last.v.args) = 2
           /\ last.v.args[1].type = "Name" /\ last.v.args[1].name = <<"a">>
           /\ last.v.args[2].type = "BinExpr" /\ last.v.args[2].op = <<"*">>

\* C8 amended: "add a , b\n", the comma a token of its own, gives the file
\* of Op add with the arguments "a" and "b", each one token classified as a
\* name or an integer; "add a, b*2\n" raises Stop "expected ','" at b*2.
C8_TokenArgs ==
    /\ (text = AddNames /\ status \notin {"parsing", "eof"})
        => /\ status = "file" /\ Len(stmts) = 1
           /\ stmts[1].type = "Op" /\ stmts[1].mnemonic = <<"a","d","d">>
           /\ stmts[1].args = <<StrArg(<<"a">>), StrArg(<<"b">>)>>
    /\ (text = AddExpr /\ status \notin {"parsing", "eof"})
        => /\ status = "stop" /\ stmts = <<>>
           /\ err.m = "expected" /\ err.a = <<<<",">>>>
           /\ Len(err.toks) = 1 /\ err.toks[1].text = <<"b","*","2">>

C8_Witness ==
    /\ text = AddNames /\ status = "file"
    /\ stmts[1].args = <<StrArg(<<"a">>), StrArg(<<"b">>)>>

PlusThree == <<"+","3",":"," ","o","u","t","\n">>
PlusBlankThree == <<"+"," ","3",":"," ","o","u","t","\n">>

\* C9 as stated: "+3: out\n" gives the file of Offset(3, "+") and Op out.
C9_AdjacentSign ==
    (text = PlusThree /\ status \notin {"parsing", "eof"})
        => /\ status = "file" /\ Len(stmts) = 2
           /\ stmts[1].type = "Offset" /\ stmts[1].offset = 3
           /\ stmts[1].relative = <<"+">>
           /\ stmts[2].type = "Op" /\ stmts[2].mnemonic = <<"o","u","t">>
           /\ stmts[2].args = <<>>

\* C9 amended: "+ 3: out\n", the sign a token of its own, gives the file of
\* Offset(3, "+") and Op out; "+3: out\n" raises Stop "expected ','" at out.
C9_SeparateSign ==
    /\ (text = PlusBlankThree /\ status \notin {"parsing", "eof"})
        => /\ status = "file" /\ Len(stmts) = 2
           /\ stmts[1].type = "Offset" /\ stmts[1].offset = 3
           /\ stmts[1].relative = <<"+">>
           /\ stmts[2].type = "Op" /\ stmts[2].mnemonic = <<"o","u","t">>
           /\ stmts[2].args = <<>>
    /\ (text = PlusThree /\ status \notin {"parsing", "eof"})
        => /\ status = "stop" /\ stmts = <<>>
           /\ err.m = "expected" /\ err.a = <<<<",">>>>
           /\ Len(err.toks) = 1 /\ err.toks[1].text = <<"o","u","t">>

C9_Witness ==
    /\ text = PlusBlankThree /\ status = "file"
    /\ stmts[1].type = "Offset" /\ stmts[1].relative = <<"+">>

\* the expression after "(", parsed from the second token on
InnerExpr == rule("parse_expr", [NewParser EXCEPT !.pos = 1])

\* C10: parse_atom on "(", an expression and a next token that is not ")"
\* raises Stop.
C10_UnclosedParenFatal ==
    (last.rule = "parse_atom" /\ toks[1].text = <<"(">>
        /\ InnerExpr.k = "ok" /\ InnerExpr.v # None
        /\ toks[InnerExpr.st.pos + 1].text # <<")">>)
        => status = "stop"

\* what parse_atom does there: no match, the cursor back before "("
C10_SilentNoMatch ==
    /\ last.rule = "parse_atom" /\ toks[1].text = <<"(">>
    /\ InnerExpr.k = "ok" /\ InnerExpr.v # None
    /\ toks[InnerExpr.st.pos + 1].text # <<")">>
    /\ status = "ok" /\ last.v = None /\ st.pos = 0

(***************************************************************************)
(* The lexer's stream.  What the properties compare the tokens with is     *)
(* computed from the text alone: Terminated is the text as its lines are   *)
(* read (a line break added to a last line without one), LineStart(n) the  *)
(* offset of the start of line n in it, LineBreaksBefore(o) the number of  *)
(* line breaks before offset o.                                            *)
(***************************************************************************)
Terminated(t) == IF Len(t) > 0 /\ Last(t) # "\n" THEN Append(t, "\n") ELSE t

SummedLength(t) == Len(Terminated(t))

LineBreaksBefore(t, o) == Cardinality({i \in 1..o : t[i] = "\n"})

LineCount(t) == LineBreaksBefore(Terminated(t), SummedLength(t))

\* 0-based offset of the start of line n (1-based); of the end of the text past the last line
LineStart(t, n) ==
    IF n = 1 THEN 0
    ELSE CHOOSE o \in 1..SummedLength(t) :
             Terminated(t)[o] = "\n" /\ LineBreaksBefore(Terminated(t), o) = n - 1

TokIdx == 1..Len(toks)

\* the stream of a lexer that has returned: the Eof token is its last token
\* and its only one, with empty text and start = end = the summed length of
\* the lines read
C11_Stream ==
    /\ status = "lexed"
    /\ Len(toks) > 0
    /\ \A k \in TokIdx : IsEof(toks[k]) <=> k = Len(toks)
    /\ Last(toks).text = <<>>
    /\ Last(toks).start = SummedLength(text)
    /\ Last(toks).end = SummedLength(text)

\* C11: every token stream ends with exactly one Eof token, of empty text,
\* with start = end = the summed length of all lines read (a missing last
\* line break counted), and no token is produced after it: the lexer comes
\* to such a stream and stays there
C11_EndsWithEof == <>[]C11_Stream

\* a text of skipped and content lines whose last line has no line break, lexed
C11_Witness ==
    /\ status = "lexed"
    /\ Len(text) = MaxFairLen /\ Last(text) # "\n"
    /\ Len(toks) >= 3 /\ lx.line_num >= 2
    /\ Last(toks).start = Len(text) + 1

\* C12: token starts strictly increase along the stream, start <= end, and
\* col is start minus the offset of the start of the token's line, which is
\* the line_start the token carries
C12_Positions ==
    \A k \in TokIdx :
        /\ toks[k].start <= toks[k].end
        /\ toks[k].line_start = LineStart(text, toks[k].line_num)
        /\ toks[k].col = toks[k].start - LineStart(text, toks[k].line_num)
        /\ k > 1 => toks[k - 1].start < toks[k].start

\* tokens on two lines, the second line's first token not at the line start
C12_Witness ==
    /\ status = "lexed"
    /\ \E j, k \in TokIdx :
           /\ IsText(toks[j]) /\ IsText(toks[k])
           /\ toks[j].line_num < toks[k].line_num
           /\ toks[k].col > 0 /\ toks[k].line_start > 0

Markers == {";", "#"}

LineOf(o) == 1 + LineBreaksBefore(text, o)

RunStart(o) == o = LineStart(text, LineOf(o)) \/ text[o] \in Whitespace \cup {":"}

CommentStart(c, o) == text[o + 1] = c /\ RunStart(o)

\* offset p lies in a comment of marker c
InComment(c, p) == \E o \in LineStart(text, LineOf(p))..p : CommentStart(c, o)

\* the first non-whitespace character of the line at line_start is c
CommentLine(c, line_start) ==
    \E o \in line_start..(Len(text) - 1) :
        /\ text[o + 1] = c
        /\ \A i \in line_start..(o - 1) : text[i + 1] \in Whitespace \ {"\n"}

\* no Text token lies in a comment of marker c, and no Newline token is
\* yielded for a line that is a comment of marker c
NoCommentToken(c) ==
    \A k \in TokIdx :
        /\ IsText(toks[k]) => ~InComment(c, toks[k].start)
        /\ IsNewline(toks[k]) => ~CommentLine(c, toks[k].line_start)

\* C14: for both comment markers, ';' and '#': a line whose first
\* non-whitespace character is the marker yields no token, and a run that
\* starts with the marker ends its line's Text tokens, so no text of a
\* comment appears in a token
C14_BothMarkers == \A c \in Markers : NoCommentToken(c)

\* what the lexer does: '#' is a comment marker
C14_HashMarker == NoCommentToken("#")

\* a Text token that starts with ';' and the Newline token of its line
C14_SemicolonToken ==
    \E k \in TokIdx :
        /\ IsText(toks[k]) /\ toks[k].text[1] = ";"
        /\ CommentLine(";", toks[k].line_start)
        /\ \E j \in TokIdx : IsNewline(toks[j]) /\ toks[j].line_num = toks[k].line_num

\* length of line n with its line break
LineLen(t, n) == LineStart(t, n + 1) - LineStart(t, n)

\* C15: a line that yields a Text token yields exactly one Newline token,
\* after the line's Text tokens and before any token of a later line, with
\* the span of the line's last character; a line that yields no Text token
\* yields no Newline token
C15_OneNewline ==
    /\ \A k \in TokIdx :
           IsNewline(toks[k]) =>
               /\ k > 1 /\ IsText(toks[k - 1])
               /\ toks[k - 1].line_num = toks[k].line_num
               /\ \A j \in TokIdx \ {k} :
                      /\ toks[j].line_num = toks[k].line_num => IsText(toks[j]) /\ j < k
                      /\ toks[j].line_num > toks[k].line_num => j > k
               /\ toks[k].end = LineStart(text, toks[k].line_num)
                                    + LineLen(text, toks[k].line_num)
               /\ toks[k].start = toks[k].end - 1
               /\ Terminated(text)[toks[k].end] = "\n"
    /\ \A k \in TokIdx :
           IsText(toks[k]) =>
               \E j \in TokIdx : IsNewline(toks[j]) /\ toks[j].line_num = toks[k].line_num

\* a skipped first line, then a last line without line break whose tail is
\* a comment: its Newline token lies past the end of the text
C15_Witness ==
    /\ status = "lexed"
    /\ Len(text) > 0 /\ Last(text) # "\n"
    /\ toks[1].line_num = 2
    /\ \E k \in TokIdx :
           /\ IsNewline(toks[k]) /\ toks[k].end = Len(text) + 1
           /\ \E o \in (toks[k].line_start + 1)..(Len(text) - 1) : CommentStart("#", o)

(***************************************************************************)
(* tokenize.  The classes are those of the lexical conventions: whitespace,*)
(* colon, other.                                                           *)
(***************************************************************************)
ClassOf(c) == IF c \in Whitespace THEN "whitespace" ELSE IF c = ":" THEN "colon" ELSE "other"

RECURSIVE Concat(_)
Concat(ss) == IF ss = <<>> THEN <<>> ELSE Head(ss) \o Concat(Tail(ss))

TokenAt(o) ==
    \E k \in TokIdx :
        toks[k].text = <<text[o + 1]>> /\ toks[k].start = o /\ toks[k].end = o + 1

\* C17: every ':' of a line outside a comment is yielded as a Text token
\* whose text is ":", whatever is adjacent to it (a comment is taken as
\* the lexer takes it, from a run that starts with '#')
C17_ColonAlone ==
    status = "lexed" =>
        \A o \in 0..(Len(text) - 1) :
            text[o + 1] = ":" /\ ~InComment("#", o) => TokenAt(o)

\* the Text token of the maximal run of ':' characters around offset o
ColonRunAt(o) ==
    \E k \in TokIdx :
        /\ toks[k].start <= o /\ o < toks[k].end
        /\ toks[k].text = SubSeq(text, toks[k].start + 1, toks[k].end)
        /\ \A i \in 1..Len(toks[k].text) : toks[k].text[i] = ":"
        /\ toks[k].start = 0 \/ text[toks[k].start] # ":"
        /\ toks[k].end = Len(text) \/ text[toks[k].end + 1] # ":"

\* C17 as the lexer has it: every ':' outside a comment lies in a Text
\* token that is the maximal run of ':' characters around it; a ':' with
\* no ':' next to it is the token ":", whatever else is adjacent to it
C17_ColonRun ==
    status = "lexed" =>
        \A o \in 0..(Len(text) - 1) :
            text[o + 1] = ":" /\ ~InComment("#", o) => ColonRunAt(o)

\* a ':' between two other characters, yielded alone, and two adjacent ':'
\* yielded as one token
C17_Witness ==
    /\ status = "lexed"
    /\ \E o \in 1..(Len(text) - 2) :
           /\ text[o] = "a" /\ text[o + 1] = ":" /\ text[o + 2] \in {"a", ";"}
           /\ TokenAt(o) /\ ColonRunAt(o)
    /\ \E k \in TokIdx : toks[k].text = <<":", ":">>

(***************************************************************************)
(* The cursor of das.                                                      *)
(***************************************************************************)
\* C18: peek(n) does not consume: whatever calls of mark, get, peek, drop
\* and reset were made, the get calls returned what they return when the
\* peeks are left out, and so will the coming ones
C18_PeekPure ==
    /\ yielded = shadow.got
    /\ Upcoming(dcur) = Upcoming(shadow.cur)

\* a peek while no mark is active leaves the tokens to come as they are
C18_PeekUnmarked ==
    [][(\E n \in 1..MaxPeek : CurPeek(n)) /\ Len(dcur.marks) = 0
           => Upcoming(dcur') = Upcoming(dcur)]_vars

\* a get call returned a token a second time that the cursor without the
\* peeks returned once
C18_Duplicated ==
    /\ Len(yielded) = 2 /\ Len(shadow.got) = 2
    /\ yielded[1] = yielded[2] /\ yielded[1] \in {toks[k] : k \in 1..Len(toks)}
    /\ shadow.got[1] = yielded[1] /\ shadow.got[2] # yielded[2]

(***************************************************************************)
(* The tokens the statements of a File captured.                           *)
(***************************************************************************)
FileToks(ss) == Concat([i \in 1..Len(ss) |-> ss[i].toks])

IsPrefix(s, u) == Len(s) <= Len(u) /\ s = SubSeq(u, 1, Len(s))

\* C19: for every input a parser accepts, the captured tokens of the
\* File's statements, concatenated in statement order, are a contiguous
\* prefix of the token stream the lexer emitted
C19_ContiguousPrefix ==
    /\ status = "file" => IsPrefix(FileToks(stmts), toks)
    /\ dstatus = "file" => IsPrefix(FileToks(dstmts), toks)

\* C19 as the parsers have it: the captured tokens of an accepted file are
\* the Text tokens of the stream, all of them and in stream order; the
\* Newline tokens between them and the Eof token are consumed, not captured
C19_TextTokens ==
    /\ status = "file" => FileToks(stmts) = SelectSeq(toks, IsText)
    /\ dstatus = "file" => FileToks(dstmts) = SelectSeq(toks, IsText)

\* a file of two statements on two lines, accepted by both parsers
C19_Witness ==
    /\ status = "file" /\ dstatus = "file"
    /\ Len(stmts) >= 2 /\ Len(dstmts) >= 2
    /\ \E k \in 2..(Len(toks) - 2) : IsNewline(toks[k]) /\ IsText(toks[k + 1])
    /\ Len(FileToks(stmts)) >= 3

(***************************************************************************)
(* The seed loops of cache_left_rec, step by step.                         *)
(***************************************************************************)
\* the recorded end of every cache entry is a position of the stream
EndsBounded ==
    \A key \in DOMAIN mach.st.cache :
        key[1] <= mach.st.cache[key].end /\ mach.st.cache[key].end <= Len(toks)

\* a step that writes a cache entry anew moves its recorded end forward
EndsGrow ==
    \A key \in DOMAIN mach.st.cache :
        /\ key \in DOMAIN mach'.st.cache
        /\ mach'.st.cache[key] # mach.st.cache[key]
               => mach'.st.cache[key].end > mach.st.cache[key].end

\* the call has come to its end: a result or a no-match (returned), or a
\* fatal signal (raised)
Finished ==
    /\ mach.stack = <<>>
    /\ mach.ret.k \in {"ok", "stop"}
    /\ mach.ret.k = "stop" => mach.ret.e # NoErr

\* C20: every seed loop of cache_left_rec ends: each round but the last
\* moves the recorded end of its cache entry forward, the end never passes
\* the length of the stream, and parse_expr and every rule of the
\* precedence chain come to an end with a result, a no-match or a fatal
\* signal
C20_SeedLoopsEnd ==
    /\ [][EndsGrow]_vars
    /\ []EndsBounded
    /\ <>[]Finished

\* a call that ended after a seed loop grew its entry twice (x op y op z),
\* and left entries of other rules at the same position
C20_Witness ==
    /\ mach.stack = <<>> /\ mach.ret.k = "ok" /\ mach.ret.v # None
    /\ mach.ret.v.type = "BinExpr" /\ mach.ret.v.x.type = "BinExpr"
    /\ \E key \in DOMAIN mach.st.cache :
           key[1] = 0 /\ mach.st.cache[key].end = 5

(***************************************************************************)
(* The rule cache, step by step.                                           *)
(***************************************************************************)
\* the key of the cached rule the top frame is about to enter
TopKey == <<mark(mach.st), Top(mach).name>>

\* the top frame is a call of a cached rule, not yet entered
CachedCall ==
    /\ mach.stack # <<>>
    /\ Top(mach).fn = "cache_left_rec" /\ Top(mach).pc = "start"
    /\ mach.ret.k = "call"

\* a cached rule is called with a key whose entry an earlier call, now
\* completed, has stored
CompletedHit ==
    /\ CachedCall
    /\ TopKey \in DOMAIN mach.st.cache
    /\ ~CallInProgress(mach, Top(mach), mark(mach.st))

\* C21: a cached rule called with a key whose entry was stored by a
\* completed earlier call does not run its body again: the call returns
\* at once with the stored result, the cursor at the stored end, and the
\* cache as it was
C21_HitSkipsBody ==
    [][CompletedHit =>
           /\ mach'.stack = SubSeq(mach.stack, 1, Len(mach.stack) - 1)
           /\ mach'.ret.k = "ok"
           /\ mach'.ret.v = mach.st.cache[TopKey].res
           /\ mach'.st.pos = mach.st.cache[TopKey].end
           /\ mach'.st.cache = mach.st.cache]_vars

\* a call that hits the entry of a completed call which matched tokens:
\* the cursor is to jump from the key's position to the stored end
C21_Witness ==
    /\ CompletedHit
    /\ mach.st.cache[TopKey].res # None
    /\ mach.st.cache[TopKey].end > mark(mach.st)
    /\ mark(mach.st) > 0

\* every entry holds an end at or past its key's position, and no match
\* exactly when the end is that position
EntriesSound ==
    \A key \in DOMAIN mach.st.cache :
        /\ mach.st.cache[key].end >= key[1]
        /\ mach.st.cache[key].res = None <=> mach.st.cache[key].end = key[1]

\* the step returns from a seed loop
SeedReturns ==
    /\ mach.stack # <<>>
    /\ Top(mach).fn = "cache_left_rec" /\ Top(mach).pc = "in_loop"
    /\ Len(mach'.stack) < Len(mach.stack)
    /\ mach'.ret.k = "ok"

\* what a seed loop returns is its entry, which is final
ReturnsEntry ==
    SeedReturns =>
        /\ mach'.st.cache = mach.st.cache
        /\ mach'.ret.v = mach.st.cache[<<Top(mach).pos, Top(mach).name>>].res
        /\ mach'.st.pos = mach.st.cache[<<Top(mach).pos, Top(mach).name>>].end

\* C22: at every point of a parse each cache entry keyed at position p
\* holds (result, end) with end >= p and result no-match exactly when
\* end = p; every update of an entry moves its end forward; and a
\* seed-growing rule returns its entry as it stands then, the one of the
\* greatest end
C22_EntriesGrow ==
    /\ []EntriesSound
    /\ [][EndsGrow /\ ReturnsEntry]_vars

\* a call that returned the entry of its key, of end 5 after two rounds
\* of growth, beside entries of shorter matches
C22_Witness ==
    /\ mach.stack = <<>> /\ mach.ret.k = "ok"
    /\ <<0, last.rule>> \in DOMAIN mach.st.cache
    /\ mach.st.cache[<<0, last.rule>>] = [res |-> mach.ret.v, end |-> mach.st.pos]
    /\ mach.st.pos = 5
    /\ \E key \in DOMAIN mach.st.cache :
           mach.st.cache[key].res # None /\ mach.st.cache[key].end < 5

(***************************************************************************)
(* The two dialects on the same text.                                      *)
(***************************************************************************)
TokTexts(n) == [i \in 1..Len(n.toks) |-> n.toks[i].text]

\* the same kind of node with the same field values; the arguments of two
\* instructions are compared when they were made from the same texts
SameStmt(a, b) ==
    /\ a.type = b.type
    /\ TokTexts(a) = TokTexts(b)
    /\ CASE a.type = "Label" -> a.name = b.name
         [] a.type = "Op" -> a.mnemonic = b.mnemonic /\ a.args = b.args
         [] a.type = "Val" -> a.val = b.val
         [] OTHER -> FALSE

WesDone == status \notin {"parsing", "eof"}

\* C23: every input das parse_file accepts, wes parse_file accepts too,
\* and the two Files hold the same statements in the same order
C23_DasSubset ==
    (dstatus = "file" /\ WesDone) =>
        /\ status = "file"
        /\ Len(stmts) = Len(dstmts)
        /\ \A i \in 1..Len(dstmts) : SameStmt(stmts[i], dstmts[i])

\* every label das returned has a name of the identifier form only
DasLabelsNamed ==
    \A i \in 1..Len(dstmts) :
        dstmts[i].type = "Label" => NAME_RE(dstmts[i].name) /\ ~VAL_RE(dstmts[i].name)

\* the inclusion holds for the files in which das found such labels only
C23_NamedLabels ==
    (dstatus = "file" /\ WesDone /\ DasLabelsNamed) =>
        /\ status = "file"
        /\ Len(stmts) = Len(dstmts)
        /\ \A i \in 1..Len(dstmts) : SameStmt(stmts[i], dstmts[i])

\* das returned a File with a Label whose name is no identifier, and wes
\* raised Stop on the same text
C23_LabelNoName ==
    /\ dstatus = "file" /\ status = "stop"
    /\ \E i \in 1..Len(dstmts) :
           dstmts[i].type = "Label" /\ ~NAME_RE(dstmts[i].name)

(***************************************************************************)
(* The end of the wes statement loop.                                      *)
(***************************************************************************)
\* the last call of parse_stmt returned None
StmtNoMatch == last.rule = "parse_stmt" /\ last.k = "ok" /\ last.v = None

\* C24: parse_stmt returns no match only when the next token is Eof (at
\* any other statement start it returns a statement or raises Stop), so
\* parse_eof never raises 'expected end of file', and a returned File has
\* read the whole stream and holds every Text token in a statement
C24_NoMatchAtEof ==
    /\ StmtNoMatch => last.entry < Len(toks) /\ IsEof(toks[last.entry + 1])
    /\ ~(last.rule = "parse_eof" /\ last.k = "stop")
    /\ status = "file" =>
           /\ st.pos = Len(toks)
           /\ FileToks(stmts) = SelectSeq(toks, IsText)

\* the loop ended on a no match after two statements, and parse_eof was reached
C24_Witness ==
    /\ status = "eof" /\ StmtNoMatch
    /\ Len(stmts) >= 2 /\ last.entry = Len(toks) - 1

(***************************************************************************)
(* The mark stack of das.                                                  *)
(***************************************************************************)
\* C25: every call of a rule wrapped by marked leaves the mark stack at the
\* depth it had on entry, whether the rule matched or not: the mark stack
\* is empty whenever parse_stmt has returned, and so no mark records a
\* token read after its rule
C25_MarksBalanced == (dlast.rule = "parse_stmt" /\ dlast.k = "ok") => dcur.marks = <<>>

\* a rule that found no match has popped its mark: no more marks are left
\* than statements were returned
C25_OnePerStatement ==
    (dlast.rule = "parse_stmt" /\ dlast.k = "ok") => Len(dcur.marks) = Len(dstmts)

\* das returned a File of two statements and left two marks; the mark of
\* the label rule holds the Newline read after the rule had returned
C25_StaleMarks ==
    /\ dstatus = "file" /\ Len(dstmts) = 2 /\ Len(dcur.marks) = 2
    /\ dstmts[1].type = "Label"
    /\ \E k \in 1..Len(dcur.marks[1]) : IsNewline(dcur.marks[1][k])

(***************************************************************************)
(* The two lexical forms.                                                  *)
(***************************************************************************)
\* C26: the integer form (VAL_RE) and the identifier form (NAME_RE) are
\* disjoint, so parse_nullary, which tests the name form first, and
\* parse_arg_token and parse_atom, which test the integer form first,
\* classify every token text the same way
C26_FormsDisjoint ==
    status = "classified" =>
        /\ ~(NAME_RE(text) /\ VAL_RE(text))
        /\ yielded[1] = yielded[2] /\ yielded[2] = yielded[3]

\* the texts of both forms are those that start with "_" and go on with
\* digits and "_"; on every other text the three rules agree
C26_UnderscoreOnly ==
    status = "classified" =>
        /\ (NAME_RE(text) /\ VAL_RE(text)) <=> (text[1] = "_" /\ AllIn(text, 1, Digits \cup {"_"}))
        /\ ~(NAME_RE(text) /\ VAL_RE(text))
               => yielded[1] = yielded[2] /\ yielded[2] = yielded[3]

\* a text of both forms: a name for parse_nullary, an integer for the others
C26_BothForms ==
    /\ status = "classified"
    /\ NAME_RE(text) /\ VAL_RE(text)
    /\ yielded = <<"name", "integer", "integer">>

====
